---- MODULE Spec2Model ----
(***************************************************************************)
(* eleventy-img: the derivation pipeline of img.js.                        *)
(*                                                                         *)
(*   Spec         queueImage: the in-memory de-dup cache, the p-queue      *)
(*                processing queue and the jobs' Image.resize runs         *)
(*   SpecModes    one queueImage call and one statsSync call on a fresh    *)
(*                module, over svg, rotated, animated, Buffer and remote   *)
(*                sources and the dryRun, statsOnly and svgShortCircuit    *)
(*                options, with or without the outputs of an earlier run   *)
(*                on disk                                                  *)
(*   SpecWidths   Image.getValidWidths applied to bounded inputs           *)
(*   SpecFormats  Image.getFormatsArray applied to bounded inputs          *)
(*   SpecHash     Image.getHash called for two requests, the remote fetch  *)
(*                cache changing in between                                *)
(*   SpecTransform  Image._transformRawFiles applied to bounded inputs     *)
(***************************************************************************)
EXTENDS Integers, Sequences, FiniteSets, TLC

VARIABLES
    calls,      \* the queueImage calls made so far: request, key, promise returned
    memCache,   \* MemoryCache.cache: key -> the promise stored under it
    promises,   \* the promise of each job: pending, resolved or rejected
    pq,         \* processingQueue: its waiting jobs, running count and limit
    jobs,       \* each job's position in the async function and its stats
    disk,       \* the output paths that exist on disk
    assetCache, \* the remote URLs whose fetched asset is cached and still valid
    sync,       \* the statsSync call made, if any, and what it returned
    byDimensions, \* the statsByDimensionsSync call made, if any, and its result
    wIn,        \* arguments of a getValidWidths call
    wOut,       \* its return value
    wDone,      \* whether the call has returned
    fIn,        \* arguments of a getFormatsArray call
    fOut,       \* its return value
    fDone,      \* whether the call has returned
    hIn,        \* the two (src, options) pairs of a pair of getHash calls
    hOut,       \* the hash each call returned
    hDone,      \* whether each call has returned
    tIn,        \* arguments of a _transformRawFiles call
    tOut,       \* its return value
    tDone       \* whether the call has returned

queueVars == <<calls, memCache, promises, pq, jobs, disk>>
machineVars == <<calls, memCache, promises, pq, jobs, disk, assetCache, sync,
                 byDimensions>>
widthVars == <<wIn, wOut, wDone>>
formatVars == <<fIn, fOut, fDone>>
hashVars == <<hIn, hOut, hDone>>
transformVars == <<tIn, tOut, tDone>>
pureVars == <<wIn, wOut, wDone, fIn, fOut, fDone, hIn, hOut, hDone, tIn, tOut, tDone>>
vars == <<calls, memCache, promises, pq, jobs, disk, assetCache, sync, byDimensions,
          wIn, wOut, wDone, fIn, fOut, fDone, hIn, hOut, hDone, tIn, tOut, tDone>>

(***************************************************************************)
(* Bounds of the model.                                                    *)
(***************************************************************************)
MaxLen == 3        \* longest requested widths list
MaxReq == 6        \* largest requested width (as a number)
MaxNative == 5     \* largest original width
MaxFormats == 3    \* longest requested formats list
MaxCalls == 2      \* queueImage calls in one run
MaxLimit == 2      \* largest value the concurrency setter is given

(***************************************************************************)
(* JavaScript values.  A widths entry is a number, a string, null or       *)
(* 'auto'; a string is the sequence of its characters.                     *)
(***************************************************************************)
Num(n) == [t |-> "num", n |-> n, s |-> <<>>]
Str(s) == [t |-> "str", n |-> 0, s |-> s]
Null == [t |-> "null", n |-> 0, s |-> <<>>]
Auto == Str(<<"a", "u", "t", "o">>)

DigitChars == {"0", "1", "2", "3", "4", "5", "6", "7", "8", "9"}

DigitVal(c) ==
    CASE c = "0" -> 0 [] c = "1" -> 1 [] c = "2" -> 2 [] c = "3" -> 3
      [] c = "4" -> 4 [] c = "5" -> 5 [] c = "6" -> 6 [] c = "7" -> 7
      [] c = "8" -> 8 [] c = "9" -> 9

DigitChar(d) ==
    CASE d = 0 -> "0" [] d = 1 -> "1" [] d = 2 -> "2" [] d = 3 -> "3"
      [] d = 4 -> "4" [] d = 5 -> "5" [] d = 6 -> "6" [] d = 7 -> "7"
      [] d = 8 -> "8" [] d = 9 -> "9"

\* Stands for NaN, the result of parseInt on a string with no leading digit:
\* like NaN it is not > 0.  No width the model draws parses to it.
NaN == 0 - 1

\* !v for a widths entry: null, 0 and the empty string are falsy.
Falsy(v) ==
    \/ v.t = "null"
    \/ v.t = "num" /\ v.n = 0
    \/ v.t = "str" /\ v.s = <<>>

\* The recursive helpers below are recursive functions: a function is applied
\* to the value of its argument.

\* String(n) for a non-negative integer.
NumToString(n) ==
    LET ToStr[m \in Nat] ==
            IF m < 10 THEN <<DigitChar(m)>>
            ELSE Append(ToStr[m \div 10], DigitChar(m % 10))
    IN ToStr[n]

\* The value of the longest prefix of digits of s; NaN when it is empty.
ParseDigits(s) ==
    LET Parse[r \in Seq(STRING), acc \in Int, seen \in BOOLEAN] ==
            IF r = <<>> \/ Head(r) \notin DigitChars
            THEN IF seen THEN acc ELSE NaN
            ELSE Parse[Tail(r), 10 * acc + DigitVal(Head(r)), TRUE]
    IN Parse[s, 0, FALSE]

\* parseInt(v, 10): a number is converted to its string first.
parseInt(v) ==
    CASE v.t = "num" -> ParseDigits(NumToString(v.n))
      [] v.t = "str" -> ParseDigits(v.s)
      [] OTHER -> NaN

(***************************************************************************)
(* Array helpers.                                                          *)
(***************************************************************************)
SeqRange(s) == {s[i] : i \in 1..Len(s)}

\* array.sort((a, b) => a - b), by insertion: each element goes after the
\* elements not above it.
SortAsc(s) ==
    LET Insert[x \in Int, r \in Seq(Int)] ==
            IF r = <<>> THEN <<x>>
            ELSE IF x < Head(r) THEN <<x>> \o r
            ELSE <<Head(r)>> \o Insert[x, Tail(r)]
        Sort[r \in Seq(Int)] ==
            IF r = <<>> THEN <<>>
            ELSE Insert[r[Len(r)], Sort[SubSeq(r, 1, Len(r) - 1)]]
    IN Sort[s]

\* [...new Set(array)] of numbers: the first occurrence of each, in order.
Dedupe(s) ==
    LET Uniq[r \in Seq(Int)] ==
            IF r = <<>> THEN <<>>
            ELSE IF r[Len(r)] \in SeqRange(SubSeq(r, 1, Len(r) - 1))
                 THEN Uniq[SubSeq(r, 1, Len(r) - 1)]
                 ELSE Append(Uniq[SubSeq(r, 1, Len(r) - 1)], r[Len(r)])
    IN Uniq[s]

\* array.filter(x => x > 0)
FilterPositive(s) ==
    LET Filter[r \in Seq(Int)] ==
            IF r = <<>> THEN <<>>
            ELSE IF Head(r) > 0 THEN <<Head(r)>> \o Filter[Tail(r)]
            ELSE Filter[Tail(r)]
    IN Filter[s]

(***************************************************************************)
(* Image.getValidWidths.  minimumThreshold is the rational num / den; the  *)
(* thresholds the model draws are dyadic, so the floating-point product    *)
(* width * minimumThreshold is exact.                                      *)
(***************************************************************************)
Threshold(n, d) == [num |-> n, den |-> d]

\* width => !width || width === 'auto' ? originalWidth : width
AutoWidth(originalWidth, width) ==
    IF Falsy(width) \/ width = Auto THEN Num(originalWidth) ELSE width

\* The comparison of WidthIsBigEnough with >= for >.
WidthIsBigEnoughInclusive(originalWidth, width, minimumThreshold) ==
    originalWidth >= (width * minimumThreshold.num) \div minimumThreshold.den

\* lastWidthWasBigEnough = originalWidth > Math.floor(width * minimumThreshold)
WidthIsBigEnough(originalWidth, width, minimumThreshold) ==
    originalWidth > (width * minimumThreshold.num) \div minimumThreshold.den

\* The map callback over the ascending list, lastWidthWasBigEnough threaded.
ClampWidths(s, originalWidth, minimumThreshold) ==
    LET Clamp[r \in Seq(Int), lastWidthWasBigEnough \in BOOLEAN] ==
            IF r = <<>> THEN <<>>
            ELSE IF Head(r) > originalWidth
            THEN <<IF lastWidthWasBigEnough THEN originalWidth ELSE 0 - 1>>
                 \o Clamp[Tail(r), lastWidthWasBigEnough]
            ELSE <<Head(r)>>
                 \o Clamp[Tail(r), WidthIsBigEnough(originalWidth, Head(r),
                                                    minimumThreshold)]
    IN Clamp[s, TRUE]   \* first one is always valid

\* NoUpscale dropping every width above the original, none replaced by it.
NoUpscaleDropLarge(valid, originalWidth, minimumThreshold) ==
    FilterPositive(SelectSeq(SortAsc(valid), LAMBDA width : width <= originalWidth))

\* The !allowUpscale block: sort, map, filter.
NoUpscale(valid, originalWidth, minimumThreshold) ==
    FilterPositive(ClampWidths(SortAsc(valid), originalWidth, minimumThreshold))

\* UniqueAscending without the Set: the duplicates stay.
AscendingOnly(valid) == SortAsc(valid)

\* valid = [...new Set(valid)]; return valid.sort((a, b) => a - b)
UniqueAscending(valid) == SortAsc(Dedupe(valid))

getValidWidths(originalWidth, widths, allowUpscale, minimumThreshold) ==
    LET replaced == [i \in 1..Len(widths) |-> AutoWidth(originalWidth, widths[i])]
        parsed == [i \in 1..Len(widths) |-> parseInt(replaced[i])]
        valid == IF allowUpscale THEN parsed
                 ELSE NoUpscale(parsed, originalWidth, minimumThreshold)
    IN UniqueAscending(valid)

(***************************************************************************)
(* Image.getFormatsArray.  A formats argument is an array of entries or a  *)
(* comma-separated string; an entry is a string or null.                   *)
(***************************************************************************)
NullFormat == "<null>"
Undefined == "<undefined>"

FormatsArray(items) == [t |-> "array", items |-> items]
FormatsString(items) == [t |-> "string", items |-> items]   \* items joined by ","

FalsyFormat(format) == format \in {NullFormat, Undefined, ""}

\* FormatAlias with no alias known.
FormatAliasNone(format) == format

\* FORMAT_ALIASES[format] || format
FormatAlias(format) ==
    CASE format = "jpg" -> "jpeg"
      [] format = "svg+xml" -> "svg"
      [] OTHER -> format

\* The map callback of getFormatsArray.
ResolveFormat(format, autoFormat) ==
    FormatAlias(IF ~FalsyFormat(autoFormat) /\ (FalsyFormat(format) \/ format = "auto")
                THEN autoFormat ELSE format)

\* The sort comparator: svg must come first.
SvgFirst(a, b) == IF a = "svg" THEN 0 - 1 ELSE IF b = "svg" THEN 1 ELSE 0

\* SortSvgFirst leaving the formats in the order requested.
SortSvgFirstNever(s) == s

\* formats.sort(comparator), by insertion: each element goes before the first
\* element it compares below, so the sort is stable.
SortSvgFirst(s) ==
    LET Insert[x \in STRING, r \in Seq(STRING)] ==
            IF r = <<>> THEN <<x>>
            ELSE IF SvgFirst(x, Head(r)) < 0 THEN <<x>> \o r
            ELSE <<Head(r)>> \o Insert[x, Tail(r)]
        Sort[r \in Seq(STRING)] ==
            IF r = <<>> THEN <<>>
            ELSE Insert[r[Len(r)], Sort[SubSeq(r, 1, Len(r) - 1)]]
    IN Sort[s]

\* [...new Set(formats)]: the first occurrence of each, in order.
DedupeFormats(s) ==
    LET Uniq[r \in Seq(STRING)] ==
            IF r = <<>> THEN <<>>
            ELSE IF r[Len(r)] \in SeqRange(SubSeq(r, 1, Len(r) - 1))
                 THEN Uniq[SubSeq(r, 1, Len(r) - 1)]
                 ELSE Append(Uniq[SubSeq(r, 1, Len(r) - 1)], r[Len(r)])
    IN Uniq[s]

\* OrderFormats sorting in every mode, "size" included.
OrderFormatsAlways(formats, svgShortCircuit) == SortSvgFirst(formats)

\* if(svgShortCircuit !== "size") formats.sort(...)
OrderFormats(formats, svgShortCircuit) ==
    IF svgShortCircuit # "size" THEN SortSvgFirst(formats) ELSE formats

getFormatsArray(formats, autoFormat, svgShortCircuit) ==
    IF formats.t = "none" \/ Len(formats.items) = 0 THEN <<>>
    ELSE LET mapped == [i \in 1..Len(formats.items) |->
                            ResolveFormat(formats.items[i], autoFormat)]
         IN DedupeFormats(OrderFormats(mapped, svgShortCircuit))

(***************************************************************************)
(* Sources and options.  A source is a path string, a URL string or a      *)
(* Buffer: `name` is the string (empty for a Buffer), `protocol` what new   *)
(* URL(src) finds in it, `bytes` the content of the file, of the fetched   *)
(* asset or of the Buffer.  The file system and the network give each      *)
(* source its size and its image metadata.                                 *)
(***************************************************************************)
Path(name, bytes) == [kind |-> "path", name |-> name, protocol |-> "", bytes |-> bytes]
Url(name, bytes) == [kind |-> "url", name |-> name, protocol |-> "https:", bytes |-> bytes]
BufferOf(bytes) == [kind |-> "buffer", name |-> "", protocol |-> "", bytes |-> bytes]

CatJpg == Path("./cat.jpg", "cat")
DogPng == Url("https://example.com/dog.png", "dog")

\* typeof src === "string"
IsString(src) == src.kind # "buffer"

\* typeof src === "string" && Util.isRemoteUrl(src)
isRemoteUrl(src) == IsString(src) /\ src.protocol \in {"https:", "http:"}

\* fs.statSync(src).size of a local source and buffer.length: the bytes of
\* the content.
FileSize(src) ==
    CASE src.bytes = "cat" -> 4096
      [] src.bytes = "portrait" -> 4000
      [] src.bytes = "anim" -> 3000
      [] src.bytes = "dog" -> 2048
      [] OTHER -> 300         \* the svg texts

\* The svg texts: one drawing saved with LF and with CRLF line ends.
SvgLf == "<svg lf>"
SvgCrLf == "<svg crlf>"

IsSvgText(bytes) == bytes \in {SvgLf, SvgCrLf}

LogoSvg == Path("./logo.svg", SvgLf)

\* metadata.size: sharp reports it for Buffer input only, which a fetched
\* asset is too; 0 when it is absent.
MetadataSize(src) == IF src.kind = "path" THEN 0 ELSE FileSize(src)

\* sharpImage.metadata() of the source's bytes: orientation is the EXIF
\* orientation (0 when there is none), pageHeight the height of one frame of
\* an animation (0 when there is none).
SharpMetadata(src) ==
    CASE src.bytes = "cat" ->
            [width |-> 1280, height |-> 853, format |-> "jpeg",
             orientation |-> 0, pageHeight |-> 0,
             size |-> MetadataSize(src)]
      [] src.bytes = "portrait" ->
            [width |-> 1280, height |-> 853, format |-> "jpeg",
             orientation |-> 6, pageHeight |-> 0,
             size |-> MetadataSize(src)]
      [] src.bytes = "anim" ->
            [width |-> 400, height |-> 900, format |-> "webp",
             orientation |-> 0, pageHeight |-> 300,
             size |-> MetadataSize(src)]
      [] src.bytes = "dog" ->
            [width |-> 640, height |-> 480, format |-> "png",
             orientation |-> 0, pageHeight |-> 0,
             size |-> MetadataSize(src)]
      [] OTHER ->
            [width |-> 100, height |-> 50, format |-> "svg",
             orientation |-> 0, pageHeight |-> 0,
             size |-> MetadataSize(src)]

\* The name image-size gives a format: jpeg files are of type "jpg".
ImageSizeType(format) == IF format = "jpeg" THEN "jpg" ELSE format

\* getImageSize(src) of a local source, { width, height, type }, as statsSync
\* and the statsOnly job pass it on: the stored dimensions of the image.
ImageSize(src) ==
    [width |-> SharpMetadata(src).width, height |-> SharpMetadata(src).height,
     format |-> ImageSizeType(SharpMetadata(src).format),
     orientation |-> 0, pageHeight |-> 0, size |-> 0]

NoMetadata == [width |-> 0, height |-> 0, format |-> Undefined,
               orientation |-> 0, pageHeight |-> 0, size |-> 0]

\* globalOptions
DefaultConcurrency == 10
DefaultThreshold == Threshold(5, 4)
DefaultOutputDir == "img/"
DefaultUrlPath == "/img/"
DefaultHashLength == 10

\* The codec-parameter options, each object as its JSON text.
DefaultSharpOptions ==
    [sharpOptions |-> "{}", sharpWebpOptions |-> "{}", sharpPngOptions |-> "{}",
     sharpJpegOptions |-> "{}", sharpAvifOptions |-> "{}"]

\* formatHooks: the object of globalOptions, whose one hook is the svg hook,
\* and an object a caller passes whose svg hook returns nothing.
DefaultFormatHooks == "{svg: svgHook}"
SilentFormatHooks == "{svg: () => undefined}"

\* A function a caller passes for filenameFormat, and the null of
\* globalOptions.
FunctionA == "function A"
FunctionB == "function B"
NullOption == "null"

\* typeof value === "function"
IsFunction(value) == value \in {FunctionA, FunctionB}

\* Object.assign({}, globalOptions, options), for the options a call varies.
Options(widths, useCache, statsOnly) ==
    [widths |-> widths, formats |-> FormatsArray(<<"jpeg">>),
     useCache |-> useCache, statsOnly |-> statsOnly, dryRun |-> FALSE,
     svgShortCircuit |-> "false", svgAllowUpscale |-> TRUE,
     minimumThreshold |-> DefaultThreshold,
     remoteImageMetadata |-> NoMetadata,
     outputDir |-> DefaultOutputDir, urlPath |-> DefaultUrlPath,
     sharp |-> DefaultSharpOptions, hashLength |-> DefaultHashLength,
     useCacheValidityInHash |-> TRUE,
     formatHooks |-> DefaultFormatHooks,
     overrideInputFormat |-> Undefined,
     filenameFormat |-> NullOption,
     urlFormat |-> NullOption,
     concurrency |-> DefaultConcurrency]

Request(src, options) == [src |-> src, options |-> options]

\* The (src, options) pairs the calls of a run are drawn from.
Requests ==
    { Request(CatJpg, Options(<<Num(300)>>, TRUE, FALSE)),
      Request(CatJpg, Options(<<Num(300), Num(600)>>, TRUE, FALSE)),
      Request(CatJpg, Options(<<Num(300)>>, FALSE, FALSE)),
      Request(DogPng, Options(<<Num(300)>>, TRUE, FALSE)),
      Request(DogPng, Options(<<Num(300)>>, TRUE, TRUE)),
      Request(LogoSvg, [Options(<<Num(300)>>, TRUE, FALSE)
                            EXCEPT !.formats = FormatsArray(<<"svg">>)]) }

(***************************************************************************)
(* Image.getInMemoryCacheKey: JSON.stringify of the sorted options with    *)
(* the source-identity fields added.  The stringified object is kept as a  *)
(* record: two keys are the same string iff the records are equal.         *)
(***************************************************************************)
\* this.assetCache.isCacheValid(duration): whether the asset of a remote
\* source is in the remote fetch cache and within its duration.
IsCacheValid(src) == src.name \in assetCache

\* JSON.stringify of the options: a property whose value is a function is
\* left out, so the formatHooks object, whose properties are functions, is
\* written as {}.
JsonOptions(options) ==
    [options EXCEPT !.filenameFormat = IF IsFunction(@) THEN Undefined ELSE @,
                    !.urlFormat = IF IsFunction(@) THEN Undefined ELSE @,
                    !.formatHooks = "{}"]

\* __originalSrc is the source itself (a Buffer is stringified as its bytes),
\* sourceUrl the URL or buffer.toString().
getInMemoryCacheKey(src, options) ==
    [opts |-> JsonOptions(options),
     originalSrc |-> IF IsString(src) THEN src.name ELSE src.bytes,
     sourceUrl |-> IF isRemoteUrl(src) THEN src.name
                   ELSE IF ~IsString(src) THEN src.bytes ELSE Undefined,
     validAssetCache |-> isRemoteUrl(src) /\ IsCacheValid(src),
     originalSize |-> IF isRemoteUrl(src) THEN 0 - 1 ELSE FileSize(src)]

(***************************************************************************)
(* MemoryCache (src/memory-cache.js): get(key) returns the stored results  *)
(* or false, add(key, results) stores them.  0 stands for false.           *)
(***************************************************************************)
NoPromise == 0

MemoryCacheGet(cache, key) ==
    IF key \in DOMAIN cache THEN cache[key] ELSE NoPromise

MemoryCacheAdd(cache, key, results) ==
    [k \in DOMAIN cache \cup {key} |-> IF k = key THEN results ELSE cache[k]]

(***************************************************************************)
(* Image.getHash, Image.getStat and Image.getFullStats.  The digest is     *)
(* kept as the record of what is fed to it.                                *)
(***************************************************************************)
\* fs.existsSync(this.src): a path source is a file that exists; a URL and
\* the bytes of a Buffer name no file.
ExistsSync(src) == src.kind = "path"

\* The file contents as hashed: an svg text without its \r and \n.
HashedContents(bytes) == IF IsSvgText(bytes) THEN "<svg >" ELSE bytes

\* HashObject keeping every option, widths and formats included.
HashObjectAllOptions(options) == options

\* hashObject: the keysToKeep of the options, each a sorted object.
HashObject(options) == options.sharp

\* The digest, truncated to hashLength, as the record of what is fed to it.
getHash(src, options) ==
    [content |-> IF ExistsSync(src) THEN HashedContents(src.bytes)
                 ELSE IF IsString(src) THEN src.name ELSE src.bytes,
     validCache |-> IF ~ExistsSync(src) /\ options.useCacheValidityInHash
                       /\ isRemoteUrl(src)
                    THEN IF IsCacheValid(src) THEN "ValidCache:true"
                         ELSE "ValidCache:false"
                    ELSE "",
     hashObject |-> HashObject(options),
     hashLength |-> options.hashLength]

\* ImagePath.filenameFormat: `${id}-${width}.${format}`.  A file name is
\* kept as the record of the function that made it and of its arguments.
filenameFormat(id, width, format) ==
    [by |-> "ImagePath.filenameFormat", id |-> id, width |-> width, format |-> format]

\* ImagePath.getFilename: the name options.filenameFormat returns when it is
\* a function (the functions here return a name for every stat), else the
\* name of ImagePath.filenameFormat.
getFilename(id, width, format, options) ==
    IF IsFunction(options.filenameFormat)
    THEN [by |-> options.filenameFormat, id |-> id, width |-> width, format |-> format]
    ELSE filenameFormat(id, width, format)

\* The content of a file or buffer that holds an image: the bytes of the
\* source it was made from, its format and its width.
Contents(bytes, format, width) == [bytes |-> bytes, format |-> format, width |-> width]

\* No buffer: a stat without its buffer property.
NoBuffer == Contents("", "", 0)

\* The false that getFileContents returns for a remote source.
FalseContents == Contents("false", "", 0)

\* Image.getFileContents: false for a remote source, else the Buffer that
\* is the source or the content of the source file.
getFileContents(src) ==
    IF isRemoteUrl(src) THEN FalseContents
    ELSE Contents(src.bytes, SharpMetadata(src).format, SharpMetadata(src).width)

\* The encoded bytes of an artifact: the data of toBuffer and the text the
\* svg format hook returns.
ArtifactBytes(src, stat) == Contents(src.bytes, stat.format, stat.width)

\* The hash getStat passes to urlFormat with statsOnly: undefined.
NoDigest == [content |-> "", validCache |-> "", hashObject |-> DefaultSharpOptions,
             hashLength |-> 0]

\* The filename and outputPath of a stat that has none.
NoFilename == [by |-> Undefined, id |-> NoDigest, width |-> 0, format |-> Undefined]
NoPath == [dir |-> Undefined, file |-> NoFilename]

\* options.urlFormat({hash, src, width, format}, options): the url is kept
\* as the record of the function and of its arguments.
UrlOfFunction(src, options, outputFormat, width) ==
    [dir |-> options.urlFormat,
     file |-> [by |-> options.urlFormat,
               id |-> IF options.statsOnly THEN NoDigest ELSE getHash(src, options),
               width |-> width, format |-> outputFormat]]

\* The stat of getStat with the default url: filename and outputPath are set.
StatWithPath(src, options, outputFormat, width, height) ==
    LET outputFilename == getFilename(getHash(src, options), width, outputFormat, options)
    IN [format |-> outputFormat, width |-> width, height |-> height,
        filename |-> outputFilename,
        outputPath |-> [dir |-> options.outputDir, file |-> outputFilename],
        url |-> [dir |-> options.urlPath, file |-> outputFilename],
        size |-> 0, status |-> "planned", buffer |-> NoBuffer]

\* A stat as getStat returns it; status, size and buffer are filled in by
\* resize.  With a urlFormat function the stat has no filename and no
\* outputPath.
getStat(src, options, outputFormat, width, height) ==
    IF IsFunction(options.urlFormat)
    THEN [format |-> outputFormat, width |-> width, height |-> height,
          filename |-> NoFilename, outputPath |-> NoPath,
          url |-> UrlOfFunction(src, options, outputFormat, width),
          size |-> 0, status |-> "planned", buffer |-> NoBuffer]
    ELSE StatWithPath(src, options, outputFormat, width, height)

\* needsRotation(orientation)
needsRotation(orientation) == orientation >= 5 /\ orientation <= 8

\* The metadata as getFullStats goes on with it: width and height swapped
\* for a rotated image, pageHeight for the height when there is one.
EffectiveMetadata(metadata) ==
    LET rotated == IF needsRotation(metadata.orientation)
                   THEN [metadata EXCEPT !.width = metadata.height,
                                         !.height = metadata.width]
                   ELSE metadata
    IN IF rotated.pageHeight # 0 THEN [rotated EXCEPT !.height = rotated.pageHeight]
       ELSE rotated

\* StatHeight giving every stat the height of the source.
StatHeightOfSource(width, metadata) == metadata.height

\* Math.floor(width * metadata.height / metadata.width)
StatHeight(width, metadata) == (width * metadata.height) \div metadata.width

\* The stats of one raster output format: one per valid width.
StatsOfFormat(src, options, metadata, outputFormat) ==
    LET widths == getValidWidths(metadata.width, options.widths,
                                 metadata.format = "svg" /\ options.svgAllowUpscale,
                                 options.minimumThreshold)
    IN [i \in 1..Len(widths) |->
            getStat(src, options, outputFormat, widths[i],
                    StatHeight(widths[i], metadata))]

\* The svg stat of the plan: metadata.size is its size when there is one.
SvgStat(src, options, metadata) ==
    [getStat(src, options, "svg", metadata.width, metadata.height)
        EXCEPT !.size = metadata.size]

\* metadata.format || this.options.overrideInputFormat
NativeFormat(metadata, options) ==
    IF FalsyFormat(metadata.format) THEN options.overrideInputFormat
    ELSE metadata.format

\* UnsupportedFormat throwing for no format.
UnsupportedFormatNever(outputFormat) == FALSE

\* if(!outputFormat || outputFormat === "auto") throw
UnsupportedFormat(outputFormat) == FalsyFormat(outputFormat) \/ outputFormat = "auto"

\* SkipsSvgOutput emitting the svg stat for a raster input too.
SkipsSvgOutputNever(metadata, options) == FALSE

\* The else of if((metadata.format || overrideInputFormat) === "svg"):
\* "Skipping SVG output: received raster input."
SkipsSvgOutput(metadata, options) == NativeFormat(metadata, options) # "svg"

\* ShortCircuits breaking off after the svg entry in no mode.
ShortCircuitsNever(options) == FALSE

\* if(this.options.svgShortCircuit === true) break
ShortCircuits(options) == options.svgShortCircuit = "true"

\* The loop of getFullStats over the output formats, results in push order;
\* ok is FALSE when the loop throws on a falsy or "auto" output format.
FullStatsLoop(src, options, metadata, outputFormats) ==
    LET Loop[fs \in Seq(STRING)] ==
            IF fs = <<>> THEN [ok |-> TRUE, stats |-> <<>>]
            ELSE IF UnsupportedFormat(Head(fs))
            THEN [ok |-> FALSE, stats |-> <<>>]
            ELSE IF Head(fs) = "svg" /\ SkipsSvgOutput(metadata, options)
            THEN Loop[Tail(fs)]
            ELSE [ok |-> IF Head(fs) = "svg" /\ ShortCircuits(options)
                         THEN TRUE     \* break
                         ELSE Loop[Tail(fs)].ok,
                  stats |-> (IF Head(fs) = "svg"
                             THEN <<SvgStat(src, options, metadata)>>
                             ELSE StatsOfFormat(src, options, metadata, Head(fs)))
                            \o (IF Head(fs) = "svg" /\ ShortCircuits(options)
                                THEN <<>>
                                ELSE Loop[Tail(fs)].stats)]
    IN Loop[outputFormats]

\* The element of a one-element set.  {Op(x) : x \in {e}} names the value of
\* e once, as a `let` of the code does, and TheValue takes Op of it.
TheValue(S) == CHOOSE x \in S : TRUE

(***************************************************************************)
(* Image._transformRawFiles: the files grouped by format, each group in    *)
(* ascending width, and in mode "size" without the raster files larger     *)
(* than the svg entry.  The result maps each format key to its group.      *)
(***************************************************************************)
\* The keys of byType: the truthy formats other than 'auto', then the
\* formats of the files.
FormatKeys(files, formats) ==
    {f \in SeqRange(formats) : ~FalsyFormat(f) /\ f # "auto"}
    \cup {files[i].format : i \in 1..Len(files)}

\* byType[type].sort((a, b) => a.width - b.width), by insertion.
SortByWidth(s) ==
    LET Insert[x \in SeqRange(s), r \in Seq(SeqRange(s))] ==
            IF r = <<>> THEN <<x>>
            ELSE IF x.width < Head(r).width THEN <<x>> \o r
            ELSE <<Head(r)>> \o Insert[x, Tail(r)]
        Sort[n \in 0..Len(s)] ==
            IF n = 0 THEN <<>> ELSE Insert[s[n], Sort[n - 1]]
    IN Sort[Len(s)]

\* The files of one format, in push order.
FilesOfFormat(files, format) == SelectSeq(files, LAMBDA file : file.format = format)

\* SubstituteSvg putting the svg entry in for the first larger file even
\* when no file of the format was kept before it.
SubstituteSvgAlways(svgAdded, originalFormatKept) == ~svgAdded

\* Whether the svg entry stands in for a file larger than it: for the first
\* such file of the group, and only when a file of the format was kept.
SubstituteSvg(svgAdded, originalFormatKept) == ~svgAdded /\ originalFormatKept

\* KeepsFile keeping every file.
KeepsEveryFile(entry, svgSize) == TRUE

\* !(entry.size > svgSize)
KeepsFile(entry, svgSize) == ~(entry.size > svgSize)

\* The map and filter over one raster group, svgAdded and originalFormatKept
\* threaded.
FilterLargeRaster(group, svgEntry) ==
    LET Filter[i \in 1..(Len(group) + 1), svgAdded \in BOOLEAN,
               originalFormatKept \in BOOLEAN] ==
            IF i > Len(group) THEN <<>>
            ELSE IF ~KeepsFile(group[i], svgEntry.size)
            THEN (IF SubstituteSvg(svgAdded, originalFormatKept)
                  THEN <<svgEntry>> ELSE <<>>)
                 \o Filter[i + 1, TRUE, originalFormatKept]
            ELSE <<group[i]>> \o Filter[i + 1, svgAdded, TRUE]
    IN Filter[1, FALSE, FALSE]

\* byType after the first three loops: the files of each key in ascending
\* width.
GroupByType(files, formats) ==
    [type \in FormatKeys(files, formats) |-> SortByWidth(FilesOfFormat(files, type))]

\* svgEntry && svgEntry.length && svgEntry[0].size
SvgSizeKnown(byType) ==
    /\ "svg" \in DOMAIN byType
    /\ byType["svg"] # <<>>
    /\ byType["svg"][1].size # 0

\* if(filterLargeRasterImages && svgSize) { ... }
FilterByType(byType, filterLargeRasterImages) ==
    IF filterLargeRasterImages /\ SvgSizeKnown(byType)
    THEN [type \in DOMAIN byType |->
            IF type = "svg" THEN byType[type]
            ELSE FilterLargeRaster(byType[type], byType["svg"][1])]
    ELSE byType

transformRawFiles(files, formats, options) ==
    TheValue({FilterByType(byType, options.svgShortCircuit = "size") :
                byType \in {GroupByType(files, formats)}})

\* The stats of a grouped plan in the order resize walks them: the groups
\* in the order of their keys, which is the order of the formats.
WalkOrder(byType, formats) ==
    LET Walk[n \in 0..Len(formats)] ==
            IF n = 0 THEN <<>>
            ELSE IF formats[n] \in DOMAIN byType
                    /\ formats[n] \notin SeqRange(SubSeq(formats, 1, n - 1))
                 THEN Walk[n - 1] \o byType[formats[n]]
                 ELSE Walk[n - 1]
    IN Walk[Len(formats)]

\* getFullStats: ok is FALSE when it throws; formats are the output formats,
\* plan the grouped result, stats the stats of the plan in the order resize
\* walks them.
FullStats(ok, outputFormats, plan) ==
    [ok |-> ok, formats |-> outputFormats, plan |-> plan,
     stats |-> WalkOrder(plan, outputFormats)]

FullStatsOfLoop(loop, outputFormats, options) ==
    TheValue({FullStats(loop.ok, outputFormats, plan) :
                plan \in {transformRawFiles(loop.stats, outputFormats, options)}})

FullStatsOfFormats(src, options, metadata, outputFormats) ==
    TheValue({FullStatsOfLoop(loop, outputFormats, options) :
                loop \in {FullStatsLoop(src, options, metadata, outputFormats)}})

getFullStats(src, options, probed) ==
    TheValue({FullStatsOfFormats(src, options, metadata, outputFormats) :
                metadata \in {EffectiveMetadata(probed)},
                outputFormats \in {getFormatsArray(options.formats,
                                                   NativeFormat(probed, options),
                                                   options.svgShortCircuit)}})

\* hookResult.length of the svg format hook: the hook returns the svg text
\* of the source.
SvgHookLength(src) == FileSize(src)

\* info.size and fs.statSync(outputPath).size of a raster artifact, and the
\* length of the svg text the svg format hook returns.
EncodedSize(src, stat) == IF stat.format = "svg" THEN SvgHookLength(src) ELSE stat.width

\* No plan: the value of a call that has not returned or has thrown.
NoPlan == <<>>

\* No hash: the value of a getHash call that has not returned.
NoHash == [hash |-> "", validAssetCache |-> FALSE]

(***************************************************************************)
(* A job: the async function queueImage hands to processingQueue.add, and  *)
(* the Image.resize it runs.  pc is where the function is suspended:       *)
(*   "none"      not created         "queued"   waiting in the queue       *)
(*   "input"     await getInput()    "probe"    await sharpImage.metadata()*)
(*   "mkdir"     await fsp.mkdir(outputDir) for stat idx                   *)
(*   "hook"      await formatHooks[outputFormat].call(...) for stat idx    *)
(*   "all"       Promise.all(outputFilePromises)                           *)
(*   "returned"  the function has returned or thrown                       *)
(*   "settled"   the queue has settled the call's promise                  *)
(***************************************************************************)
JobIds == 1..MaxCalls

NoRequest == Request(CatJpg, Options(<<>>, FALSE, FALSE))

\* formats are the keys of the plan; fetches, probes and mkdirs count the
\* remote fetches, the codec's metadata probes and the mkdir calls of the job.
NoJob == [pc |-> "none", req |-> NoRequest, stats |-> <<>>, formats |-> <<>>,
          idx |-> 0, fetches |-> 0, probes |-> 0, mkdirs |-> 0, resized |-> {},
          outcome |-> "none"]

Returned(job, outcome) == [job EXCEPT !.pc = "returned", !.outcome = outcome]

\* RemoteMetadataMissing finding nothing missing.
RemoteMetadataIgnored(options) == FALSE

\* !opts.remoteImageMetadata || !opts.remoteImageMetadata.width ||
\* !opts.remoteImageMetadata.height
RemoteMetadataMissing(options) ==
    options.remoteImageMetadata.width = 0 \/ options.remoteImageMetadata.height = 0

\* The statsOnly branch of the job: no input is read.
StatsOnlyReturn(job, full) ==
    IF isRemoteUrl(job.req.src) /\ RemoteMetadataMissing(job.req.options)
    THEN Returned(job, "rejected")
    ELSE IF full.ok
         THEN Returned([job EXCEPT !.stats = full.stats,
                                   !.formats = full.formats], "resolved")
         ELSE Returned(job, "rejected")

StatsOnlyJob(job) ==
    TheValue({StatsOnlyReturn(job, full) :
                full \in {getFullStats(job.req.src, job.req.options,
                                       IF isRemoteUrl(job.req.src)
                                       THEN job.req.options.remoteImageMetadata
                                       ELSE ImageSize(job.req.src))}})

\* typeof src === "string" && opts && opts.statsOnly
TakesStatsOnlyBranch(src, options) == IsString(src) /\ options.statsOnly

\* The job from its start to its first await.
StartSync(job) ==
    IF TakesStatsOnlyBranch(job.req.src, job.req.options) THEN StatsOnlyJob(job)
    ELSE [job EXCEPT !.pc = "input"]

\* OutputIsCached finding no output on disk.
OutputIsCachedNever(options, stat, d) == FALSE

\* this.options.useCache && fs.existsSync(stat.outputPath)
OutputIsCached(options, stat, d) == options.useCache /\ stat.outputPath \in d

\* this.options.formatHooks && this.options.formatHooks[outputFormat]: the
\* formatHooks objects have a hook for svg and for no other format.
HasFormatHook(options, outputFormat) == outputFormat = "svg"

\* if(hookResult): the svg hook of globalOptions returns the svg text, the
\* hook of SilentFormatHooks returns undefined.
HookResultIsTruthy(options) == options.formatHooks # SilentFormatHooks

\* WritesFile writing in dryRun too.
WritesFileAlways(options, stat) == TRUE

\* !this.options.dryRun && stat.outputPath: the artifact goes to a file;
\* otherwise it is kept as a buffer.
WritesFile(options, stat) == ~options.dryRun /\ stat.outputPath # NoPath

\* The write of a hook result: path.dirname(stat.outputPath) throws a
\* TypeError for a stat without outputPath.
HookWriteThrows(options, stat) ==
    /\ HookResultIsTruthy(options)
    /\ ~options.dryRun
    /\ stat.outputPath = NoPath

\* if(!this.options.dryRun) { await fsp.mkdir(this.options.outputDir, ...) }
MakesOutputDir(options) == ~options.dryRun

\* AppliesResize resizing every sharp instance.
AppliesResizeAlways(options, stat, metadata) == TRUE

\* stat.width < metadata.width ||
\* (this.options.svgAllowUpscale && metadata.format === "svg")
AppliesResize(options, stat, metadata) ==
    \/ stat.width < metadata.width
    \/ (options.svgAllowUpscale /\ metadata.format = "svg")

\* The job after the sharp instance of stat i was set up: sharpInstance.resize
\* is called or not; `resized` holds the stats it was called for.  The
\* metadata is the one getFullStats went on with.
Transformed(job, i) ==
    IF AppliesResize(job.req.options, job.stats[i],
                     EffectiveMetadata(SharpMetadata(job.req.src)))
    THEN [job EXCEPT !.resized = @ \cup {i}]
    ELSE job

\* StartEncode waiting for the promise it starts: the file is written, or
\* the buffer encoded, before the loop goes on.
StartEncodeAwaited(job, i) ==
    [job EXCEPT !.stats[i].status = IF WritesFile(job.req.options, job.stats[i])
                                    THEN "written" ELSE "buffered"]

\* The promise pushed for stat i on the default path: a write to the file
\* ("writing") or an encode to a buffer ("buffering").
StartEncode(job, i) ==
    [job EXCEPT !.stats[i].status = IF WritesFile(job.req.options, job.stats[i])
                                    THEN "writing" ELSE "buffering"]

\* Whether the body of the loop for stat i has an await: the mkdir, or the
\* format hook.
Suspends(job, i, d) ==
    /\ ~OutputIsCached(job.req.options, job.stats[i], d)
    /\ \/ MakesOutputDir(job.req.options)
       \/ HasFormatHook(job.req.options, job.stats[i].format)

\* The job at the first await of the body for stat i.
SuspendedAt(job, i) ==
    IF MakesOutputDir(job.req.options)
    THEN [Transformed(job, i) EXCEPT !.pc = "mkdir", !.idx = i, !.mkdirs = @ + 1]
    ELSE [Transformed(job, i) EXCEPT !.pc = "hook", !.idx = i]

\* The job after a body without an await: the stat is taken from the disk
\* cache (with dryRun its buffer is what getFileContents returns), or its
\* encode is started.
PassedThrough(job, i, d) ==
    IF OutputIsCached(job.req.options, job.stats[i], d)
    THEN [job EXCEPT !.stats[i].status = "cached",
                     !.stats[i].size = EncodedSize(job.req.src, job.stats[i]),
                     !.stats[i].buffer = IF job.req.options.dryRun
                                         THEN getFileContents(job.req.src) ELSE @]
    ELSE StartEncode(Transformed(job, i), i)

\* The for-loop of resize from stat i to its next await, against disk d.
RECURSIVE RunLoop(_, _, _)
RunLoop(job, i, d) ==
    IF i > Len(job.stats) THEN [job EXCEPT !.pc = "all", !.idx = i]
    ELSE IF Suspends(job, i, d) THEN SuspendedAt(job, i)
    ELSE RunLoop(PassedThrough(job, i, d), i + 1, d)

(***************************************************************************)
(* processingQueue (p-queue): add enqueues and tries to start one job; a   *)
(* job is started while fewer than `concurrency` are running; a finished   *)
(* job tries to start the next; the concurrency setter starts as many as   *)
(* the new limit allows.  The state is the pair of pq and jobs.            *)
(***************************************************************************)
\* ConcurrencyAllowsAnother off by one: <= for <.
ConcurrencyAllowsOneMore(q) == q.pendingCount <= q.concurrency

\* _doesConcurrentAllowAnother
ConcurrencyAllowsAnother(q) == q.pendingCount < q.concurrency

tryToStartAnother(s) ==
    IF s.pq.queue = <<>> \/ ~ConcurrencyAllowsAnother(s.pq) THEN s
    ELSE LET j == Head(s.pq.queue)
         IN [pq |-> [s.pq EXCEPT !.queue = Tail(@), !.pendingCount = @ + 1],
             jobs |-> [s.jobs EXCEPT ![j] = StartSync(@)]]

RECURSIVE processQueue(_)
processQueue(s) ==
    IF s.pq.queue = <<>> \/ ~ConcurrencyAllowsAnother(s.pq) THEN s
    ELSE processQueue(tryToStartAnother(s))

\* QueueAdd taking the limit from the concurrency of the call's options.
QueueAddWithOptionsLimit(s, j, req) ==
    tryToStartAnother([pq |-> [s.pq EXCEPT !.queue = Append(@, j),
                                           !.concurrency = req.options.concurrency],
                       jobs |-> [s.jobs EXCEPT ![j] = [NoJob EXCEPT !.pc = "queued",
                                                                   !.req = req]]])

\* processingQueue.add(fn) for the new job j
QueueAdd(s, j, req) ==
    tryToStartAnother([pq |-> [s.pq EXCEPT !.queue = Append(@, j)],
                       jobs |-> [s.jobs EXCEPT ![j] = [NoJob EXCEPT !.pc = "queued",
                                                                   !.req = req]]])

\* QueueNext that drops the running count and starts no waiting job.
QueueNextStartsNothing(s) == [s EXCEPT !.pq.pendingCount = @ - 1]

\* The end of a job's run: the running count drops and the next job starts.
QueueNext(s) == tryToStartAnother([s EXCEPT !.pq.pendingCount = @ - 1])

(***************************************************************************)
(* queueImage(src, opts)                                                   *)
(***************************************************************************)
\* CacheLookup finding a stored promise only while it is pending.
CacheLookupWhilePending(options, key) ==
    IF options.useCache /\ key \in DOMAIN memCache
                        /\ promises[MemoryCacheGet(memCache, key)].state = "pending"
    THEN MemoryCacheGet(memCache, key) ELSE NoPromise

\* if(img.options.useCache) { cached = memCache.get(key) }
CacheLookup(options, key) ==
    IF options.useCache THEN MemoryCacheGet(memCache, key) ELSE NoPromise

\* CacheStore that stores nothing.
CacheStoreNothing(options, key, promise) == memCache

\* CacheStore storing the promise without useCache too.
CacheStoreAlways(options, key, promise) == MemoryCacheAdd(memCache, key, promise)

\* if(img.options.useCache) { memCache.add(key, promise) }
CacheStore(options, key, promise) ==
    IF options.useCache THEN MemoryCacheAdd(memCache, key, promise) ELSE memCache

\* Whether an earlier call with the same key, both with useCache, holds a
\* promise in the given state as this call is made.
EarlierEquivalent(req, key, state) ==
    \E c \in 1..Len(calls) :
        /\ calls[c].key = key
        /\ calls[c].req.options.useCache
        /\ req.options.useCache
        /\ promises[calls[c].promise].state = state

\* The record of one call: what was asked, what the caller was handed, and
\* what an equivalent earlier call was doing at that moment.
Call(req, key, promise) ==
    [req |-> req, key |-> key, promise |-> promise,
     inFlight |-> EarlierEquivalent(req, key, "pending"),
     afterFailure |-> EarlierEquivalent(req, key, "rejected")]

queueImage(req) ==
    /\ Len(calls) < MaxCalls
    /\ \E key \in {getInMemoryCacheKey(req.src, req.options)} :
       \E cached \in {CacheLookup(req.options, key)} :
       \E j \in {Cardinality({i \in JobIds : jobs[i].pc # "none"}) + 1} :
          IF cached # NoPromise
          THEN /\ calls' = Append(calls, Call(req, key, cached))
               /\ UNCHANGED <<memCache, promises, pq, jobs>>
          ELSE /\ calls' = Append(calls, Call(req, key, j))
               /\ \E s \in {QueueAdd([pq |-> pq, jobs |-> jobs], j, req)} :
                     pq' = s.pq /\ jobs' = s.jobs
               /\ promises' = [promises EXCEPT ![j].state = "pending"]
               /\ memCache' = CacheStore(req.options, key, j)
    /\ UNCHANGED <<disk, assetCache, sync, byDimensions, pureVars>>

\* module.exports.concurrency = n (p-queue accepts numbers from 1 up)
SetConcurrency(n) ==
    /\ n >= 1
    /\ n # pq.concurrency
    /\ \E s \in {processQueue([pq |-> [pq EXCEPT !.concurrency = n], jobs |-> jobs])} :
          pq' = s.pq /\ jobs' = s.jobs
    /\ UNCHANGED <<calls, memCache, promises, disk, assetCache, sync, byDimensions, pureVars>>

(***************************************************************************)
(* The steps of a running job.                                             *)
(***************************************************************************)
\* await img.getInput() completes: a local source is returned as it is, a
\* remote one is fetched, which may fail.  On success resize starts the probe.
InputDone(j, ok) ==
    /\ jobs[j].pc = "input"
    /\ ok \/ isRemoteUrl(jobs[j].req.src)
    /\ \E fetched \in {[jobs[j] EXCEPT !.fetches =
                            IF isRemoteUrl(jobs[j].req.src) THEN @ + 1 ELSE @]} :
          jobs' = [jobs EXCEPT ![j] = IF ok THEN [fetched EXCEPT !.pc = "probe"]
                                      ELSE Returned(fetched, "rejected")]
    /\ assetCache' = IF ok /\ isRemoteUrl(jobs[j].req.src)
                         /\ ~jobs[j].req.options.dryRun
                      THEN assetCache \cup {jobs[j].req.src.name}
                      ELSE assetCache
    /\ UNCHANGED <<calls, memCache, promises, pq, disk, sync, byDimensions, pureVars>>

\* await sharpImage.metadata() completes, or fails on input that is no
\* image: getFullStats, then the loop over the stats up to its first await.
ProbeDone(j, ok) ==
    /\ jobs[j].pc = "probe"
    /\ \E full \in {getFullStats(jobs[j].req.src, jobs[j].req.options,
                                  SharpMetadata(jobs[j].req.src))} :
       \E probed \in {[jobs[j] EXCEPT !.probes = @ + 1, !.stats = full.stats,
                                       !.formats = full.formats]} :
          jobs' = [jobs EXCEPT ![j] =
                      IF ~ok THEN Returned([@ EXCEPT !.probes = @ + 1], "rejected")
                      ELSE IF full.ok THEN RunLoop(probed, 1, disk)
                      ELSE Returned(probed, "rejected")]
    /\ UNCHANGED <<calls, memCache, promises, pq, disk, assetCache, sync, byDimensions, pureVars>>

\* await fsp.mkdir(outputDir) completes for stat idx: the format hook is
\* called, or the encode is started and the loop goes on to its next await.
\* mkdir with { recursive: true } is taken to succeed; its failure would
\* reject the job as a failed write does, with the writes already started
\* going on.
MkdirDone(j) ==
    /\ jobs[j].pc = "mkdir"
    /\ jobs' = [jobs EXCEPT ![j] =
                    IF HasFormatHook(@.req.options, @.stats[@.idx].format)
                    THEN [@ EXCEPT !.pc = "hook"]
                    ELSE RunLoop(StartEncode(@, @.idx), @.idx + 1, disk)]
    /\ UNCHANGED <<calls, memCache, promises, pq, disk, assetCache, sync, byDimensions, pureVars>>

\* The job after the format hook has returned a truthy result for stat idx:
\* its length is the stat's size, and it is kept as the buffer (dryRun) or
\* its write is started.
Hooked(job) ==
    [job EXCEPT
        !.stats[job.idx].size = EncodedSize(job.req.src, job.stats[job.idx]),
        !.stats[job.idx].status = IF job.req.options.dryRun THEN "buffered"
                                  ELSE "writing",
        !.stats[job.idx].buffer = IF job.req.options.dryRun
                                  THEN ArtifactBytes(job.req.src, job.stats[job.idx])
                                  ELSE @]

\* await formatHooks[outputFormat].call(stat, sharpInstance) completes for
\* stat idx.  With a truthy result the stat is pushed; with a falsy one
\* nothing is pushed for it ("skipped"); either way the loop goes on.  When
\* the hook fails ("failed") the function throws, and so it does when the
\* result is to be written for a stat without outputPath.
HookDone(j, ok) ==
    /\ jobs[j].pc = "hook"
    /\ \E hooked \in {IF HookResultIsTruthy(jobs[j].req.options) THEN Hooked(jobs[j])
                       ELSE [jobs[j] EXCEPT !.stats[jobs[j].idx].status = "skipped"]} :
          jobs' = [jobs EXCEPT ![j] =
                      IF ~ok
                      THEN Returned([@ EXCEPT !.stats[@.idx].status = "failed"], "rejected")
                      ELSE IF HookWriteThrows(@.req.options, @.stats[@.idx])
                      THEN Returned([@ EXCEPT !.stats[@.idx].size = hooked.stats[hooked.idx].size],
                                    "rejected")
                      ELSE RunLoop(hooked, hooked.idx + 1, disk)]
    /\ UNCHANGED <<calls, memCache, promises, pq, disk, assetCache, sync, byDimensions, pureVars>>

\* The promise of stat i settles: sharpInstance.toFile or fsp.writeFile has
\* written the file, or toBuffer has encoded the buffer, or it has failed.
EncodeDone(j, i, ok) ==
    /\ i \in 1..Len(jobs[j].stats)
    /\ jobs[j].stats[i].status \in {"writing", "buffering"}
    /\ jobs' = [jobs EXCEPT ![j].stats[i].status =
                                IF ~ok THEN "failed"
                                ELSE IF @ = "writing" THEN "written" ELSE "buffered",
                            ![j].stats[i].size =
                                IF ok THEN EncodedSize(jobs[j].req.src, jobs[j].stats[i])
                                ELSE @,
                            ![j].stats[i].buffer =
                                IF ok /\ jobs[j].stats[i].status = "buffering"
                                THEN ArtifactBytes(jobs[j].req.src, jobs[j].stats[i])
                                ELSE @]
    /\ disk' = IF ok /\ jobs[j].stats[i].status = "writing"
               THEN disk \cup {jobs[j].stats[i].outputPath} ELSE disk
    /\ UNCHANGED <<calls, memCache, promises, pq, assetCache, sync, byDimensions, pureVars>>

\* Promise.all settles: rejected as soon as one promise is, resolved once
\* every promise that was pushed is.
AllDone(j) ==
    /\ jobs[j].pc = "all"
    /\ LET statuses == {jobs[j].stats[i].status : i \in 1..Len(jobs[j].stats)}
       IN \/ /\ "failed" \in statuses
             /\ jobs' = [jobs EXCEPT ![j] = Returned(@, "rejected")]
          \/ /\ statuses \subseteq {"cached", "written", "buffered", "skipped"}
             /\ jobs' = [jobs EXCEPT ![j] = Returned(@, "resolved")]
    /\ UNCHANGED <<calls, memCache, promises, pq, disk, assetCache, sync, byDimensions, pureVars>>

\* The stats whose promises were pushed to outputFilePromises.
Pushed(stats) == SelectSeq(stats, LAMBDA stat : stat.status # "skipped")

\* The value a resolved job returns: the files grouped by _transformRawFiles
\* under the keys of the plan.
Resolution(job) == transformRawFiles(Pushed(job.stats), job.formats, job.req.options)

\* The queue settles the promise of the call with the function's outcome
\* and starts the next waiting job.
Settle(j) ==
    /\ jobs[j].pc = "returned"
    /\ promises' = [promises EXCEPT ![j] =
                        [state |-> jobs[j].outcome,
                         value |-> IF jobs[j].outcome = "resolved"
                                   THEN Resolution(jobs[j]) ELSE NoPlan]]
    /\ \E s \in {QueueNext([pq |-> pq,
                             jobs |-> [jobs EXCEPT ![j].pc = "settled"]])} :
          pq' = s.pq /\ jobs' = s.jobs
    /\ UNCHANGED <<calls, memCache, disk, assetCache, sync, byDimensions, pureVars>>

(***************************************************************************)
(* Image.statsSync(src, opts): the plan from the dimensions image-size     *)
(* reads; it throws for a remote source.                                   *)
(***************************************************************************)
NoSync == [called |-> FALSE, req |-> NoRequest, given |-> NoMetadata, ok |-> FALSE,
           plan |-> NoPlan]

statsSync(req) ==
    /\ ~sync.called
    /\ \E full \in {getFullStats(req.src, req.options, ImageSize(req.src))} :
          sync' = IF isRemoteUrl(req.src) \/ ~full.ok
                  THEN [NoSync EXCEPT !.called = TRUE, !.req = req]
                  ELSE [called |-> TRUE, req |-> req, given |-> ImageSize(req.src),
                        ok |-> TRUE, plan |-> full.plan]
    /\ UNCHANGED <<queueVars, assetCache, byDimensions, pureVars>>

(***************************************************************************)
(* Image.statsByDimensionsSync(src, width, height, opts): the plan from    *)
(* the dimensions the caller gives; the metadata has no format.            *)
(***************************************************************************)
statsByDimensionsSync(req, width, height) ==
    /\ ~byDimensions.called
    /\ \E dimensions \in {[NoMetadata EXCEPT !.width = width, !.height = height]} :
       \E full \in {getFullStats(req.src, req.options, dimensions)} :
          byDimensions' =
              IF full.ok
              THEN [called |-> TRUE, req |-> req, given |-> dimensions, ok |-> TRUE,
                    plan |-> full.plan]
              ELSE [NoSync EXCEPT !.called = TRUE, !.req = req]
    /\ UNCHANGED <<queueVars, assetCache, sync, pureVars>>

(***************************************************************************)
(* The specifications.                                                     *)
(***************************************************************************)
WidthsIdle ==
    /\ wIn = [originalWidth |-> 1, widths |-> <<>>, allowUpscale |-> FALSE,
              minimumThreshold |-> Threshold(1, 1)]
    /\ wOut = <<>>
    /\ wDone = FALSE

FormatsIdle ==
    /\ fIn = [formats |-> FormatsArray(<<>>), autoFormat |-> Undefined,
              svgShortCircuit |-> "false"]
    /\ fOut = <<>>
    /\ fDone = FALSE

HashIdle ==
    /\ hIn = <<NoRequest, NoRequest>>
    /\ hOut = <<NoHash, NoHash>>
    /\ hDone = <<FALSE, FALSE>>

TransformIdle ==
    /\ tIn = [files |-> <<>>, formats |-> <<>>, svgShortCircuit |-> "false"]
    /\ tOut = NoPlan
    /\ tDone = FALSE

PureIdle == WidthsIdle /\ FormatsIdle /\ HashIdle /\ TransformIdle

MachineIdle ==
    /\ calls = <<>>
    /\ memCache = <<>>
    /\ promises = [j \in JobIds |-> [state |-> "none", value |-> NoPlan]]
    /\ pq = [queue |-> <<>>, pendingCount |-> 0, concurrency |-> DefaultConcurrency]
    /\ jobs = [j \in JobIds |-> NoJob]
    /\ disk = {}
    /\ assetCache = {}
    /\ sync = NoSync
    /\ byDimensions = NoSync

Init == MachineIdle /\ PureIdle

JobStep(j) ==
    \/ \E ok \in BOOLEAN : InputDone(j, ok)
    \/ \E ok \in BOOLEAN : ProbeDone(j, ok)
    \/ MkdirDone(j)
    \/ \E ok \in BOOLEAN : HookDone(j, ok)
    \/ \E i \in 1..MaxLen, ok \in BOOLEAN : EncodeDone(j, i, ok)
    \/ AllDone(j)
    \/ Settle(j)

Next ==
    \/ \E req \in Requests : queueImage(req)
    \/ \E n \in 1..MaxLimit : SetConcurrency(n)
    \/ \E j \in JobIds : JobStep(j)

Spec == Init /\ [][Next]_vars

\* Every await of a running job completes: the collaborators terminate.
FairSpec == Spec /\ \A j \in JobIds : WF_vars(JobStep(j))

(***************************************************************************)
(* getValidWidths and getFormatsArray applied to arguments drawn from      *)
(* bounded sets and to the documented examples.                            *)
(***************************************************************************)
WidthEntries ==
    {Num(n) : n \in 0..MaxReq} \cup {Null, Auto}
    \cup {Str(NumToString(n)) : n \in {0, 3, 10}}

WidthLists == UNION {[1..n -> WidthEntries] : n \in 0..MaxLen}

Thresholds == {Threshold(1, 1), Threshold(5, 4), Threshold(3, 2)}

WidthCall(originalWidth, widths, allowUpscale, minimumThreshold) ==
    [originalWidth |-> originalWidth, widths |-> widths,
     allowUpscale |-> allowUpscale, minimumThreshold |-> minimumThreshold]

\* The example of the comment on globalOptions.minimumThreshold.
ThresholdExample == WidthCall(500, <<Num(400), Num(800)>>, FALSE, DefaultThreshold)

DocumentedWidthCalls ==
    { ThresholdExample,
      WidthCall(1280, <<Null>>, FALSE, DefaultThreshold),
      WidthCall(1280, <<Num(100), Num(200), Num(1280)>>, FALSE, DefaultThreshold) }

WidthCalls ==
    [originalWidth : 1..MaxNative, widths : WidthLists,
     allowUpscale : BOOLEAN, minimumThreshold : Thresholds]
    \cup DocumentedWidthCalls

InitWidths ==
    /\ MachineIdle
    /\ wIn \in WidthCalls
    /\ wOut = <<>>
    /\ wDone = FALSE
    /\ FormatsIdle /\ HashIdle /\ TransformIdle

CallGetValidWidths ==
    /\ ~wDone
    /\ wOut' = getValidWidths(wIn.originalWidth, wIn.widths, wIn.allowUpscale,
                              wIn.minimumThreshold)
    /\ wDone' = TRUE
    /\ UNCHANGED <<machineVars, wIn, formatVars, hashVars, transformVars>>

SpecWidths == InitWidths /\ [][CallGetValidWidths]_vars

FormatNames == {"jpeg", "jpg", "webp", "svg", "svg+xml", "auto", ""}

FormatLists(names) == UNION {[1..n -> names] : n \in 0..MaxFormats}

\* An array may hold null; the pieces of a split string are strings, and
\* the empty string is falsy and never split.
FormatsArguments ==
    {FormatsArray(items) : items \in FormatLists(FormatNames \cup {NullFormat})}
    \cup {FormatsString(items) : items \in FormatLists(FormatNames) \ {<<>>, <<"">>}}
    \cup {[t |-> "none", items |-> <<>>]}

FormatCall(formats, autoFormat, svgShortCircuit) ==
    [formats |-> formats, autoFormat |-> autoFormat, svgShortCircuit |-> svgShortCircuit]

FormatCalls ==
    [formats : FormatsArguments, autoFormat : {"jpeg", "jpg", "svg", Undefined},
     svgShortCircuit : {"false", "true", "size"}]

InitFormats ==
    /\ MachineIdle
    /\ fIn \in FormatCalls
    /\ fOut = <<>>
    /\ fDone = FALSE
    /\ WidthsIdle /\ HashIdle /\ TransformIdle

CallGetFormatsArray ==
    /\ ~fDone
    /\ fOut' = getFormatsArray(fIn.formats, fIn.autoFormat, fIn.svgShortCircuit)
    /\ fDone' = TRUE
    /\ UNCHANGED <<machineVars, fIn, widthVars, hashVars, transformVars>>

SpecFormats == InitFormats /\ [][CallGetFormatsArray]_vars

(***************************************************************************)
(* One queueImage call, one statsSync call and one statsByDimensionsSync   *)
(* call on a fresh module (SpecModes), for svg, rotated, animated, Buffer  *)
(* and remote sources and the svgShortCircuit, dryRun, statsOnly,          *)
(* formatHooks and overrideInputFormat options.  The disk is empty, or     *)
(* holds the outputs of an earlier run, or those of width 200 only.        *)
(***************************************************************************)
PortraitJpg == Path("./portrait.jpg", "portrait")
AnimWebp == Path("./anim.webp", "anim")
CatBuffer == BufferOf("cat")

\* The options of a request for an svg source.
SvgOptions(widths, formats, svgShortCircuit) ==
    [Options(widths, TRUE, FALSE) EXCEPT !.formats = FormatsArray(formats),
                                         !.svgShortCircuit = svgShortCircuit]

ModeRequests ==
    { Request(LogoSvg, SvgOptions(<<Num(200)>>, <<"svg", "jpeg">>, "true")),
      Request(LogoSvg, SvgOptions(<<Num(200)>>, <<"jpeg", "svg">>, "true")),
      Request(LogoSvg, SvgOptions(<<Num(200)>>, <<"jpeg">>, "true")),
      Request(LogoSvg, SvgOptions(<<Num(200), Num(400)>>, <<"svg", "jpeg">>, "size")),
      Request(LogoSvg, SvgOptions(<<Num(400), Num(600)>>, <<"jpeg", "svg">>, "size")),
      Request(LogoSvg, [SvgOptions(<<Num(200), Num(400)>>, <<"svg", "jpeg">>, "false")
                            EXCEPT !.dryRun = TRUE]),
      Request(LogoSvg, [SvgOptions(<<Num(200)>>, <<"svg", "jpeg">>, "false")
                            EXCEPT !.formatHooks = SilentFormatHooks]),
      Request(CatJpg, Options(<<Num(300)>>, TRUE, FALSE)),
      Request(CatJpg, [Options(<<Num(300)>>, TRUE, FALSE) EXCEPT !.dryRun = TRUE]),
      Request(CatJpg, Options(<<Num(300)>>, TRUE, TRUE)),
      Request(CatJpg, [Options(<<Num(300)>>, TRUE, FALSE)
                           EXCEPT !.formats = FormatsArray(<<"svg", "jpeg">>)]),
      Request(CatJpg, [Options(<<Null>>, TRUE, FALSE)
                           EXCEPT !.formats = FormatsArray(<<"webp", "jpeg">>)]),
      Request(CatBuffer, Options(<<Num(300)>>, TRUE, TRUE)),
      Request(DogPng, Options(<<Num(300)>>, TRUE, TRUE)),
      Request(DogPng, [Options(<<Num(300)>>, TRUE, TRUE)
                           EXCEPT !.remoteImageMetadata = ImageSize(DogPng)]),
      Request(DogPng, [Options(<<Num(300)>>, TRUE, TRUE)
                           EXCEPT !.remoteImageMetadata =
                                      [ImageSize(DogPng) EXCEPT !.format = Undefined],
                                  !.formats = FormatsArray(<<"jpeg", "auto">>)]),
      Request(DogPng, [Options(<<Num(300)>>, TRUE, FALSE) EXCEPT !.dryRun = TRUE]),
      Request(CatJpg, [Options(<<Num(300)>>, TRUE, FALSE) EXCEPT !.urlFormat = FunctionA]),
      Request(LogoSvg, [SvgOptions(<<Num(200)>>, <<"svg", "jpeg">>, "false")
                            EXCEPT !.urlFormat = FunctionA]),
      Request(CatJpg, Options(<<Num(300), Num(2000)>>, TRUE, FALSE)),
      Request(LogoSvg, [SvgOptions(<<Num(200)>>, <<"svg", "jpeg">>, "false")
                            EXCEPT !.svgAllowUpscale = FALSE]),
      Request(LogoSvg, SvgOptions(<<Num(200)>>, <<"jpeg", "svg", "webp">>, "false")),
      Request(PortraitJpg, Options(<<Null>>, TRUE, FALSE)),
      Request(AnimWebp, [Options(<<Null>>, TRUE, FALSE)
                             EXCEPT !.formats = FormatsArray(<<"webp">>)]) }

\* The statsByDimensionsSync calls: the caller passes the dimensions of the
\* source, and the native format in overrideInputFormat or not at all.
DimensionRequests ==
    { Request(CatJpg, Options(<<Num(300)>>, TRUE, FALSE)),
      Request(CatJpg, [Options(<<Num(300)>>, TRUE, FALSE)
                           EXCEPT !.formats = FormatsArray(<<"auto">>)]),
      Request(CatJpg, [Options(<<Num(300)>>, TRUE, FALSE)
                           EXCEPT !.formats = FormatsArray(<<"jpeg", NullFormat>>)]),
      Request(CatJpg, [Options(<<Num(300)>>, TRUE, FALSE)
                           EXCEPT !.formats = FormatsArray(<<"auto">>),
                                  !.overrideInputFormat = "jpeg"]),
      Request(LogoSvg, [SvgOptions(<<Num(200), Num(400)>>, <<"svg", "auto">>, "size")
                            EXCEPT !.overrideInputFormat = "svg"]),
      Request(LogoSvg, SvgOptions(<<Num(200)>>, <<"svg", "jpeg">>, "true")) }

\* The output paths of the plan of a request.
PathsOfStats(stats) == {stats[i].outputPath : i \in 1..Len(stats)} \ {NoPath}

OutputsOf(req) == PathsOfStats(getFullStats(req.src, req.options, SharpMetadata(req.src)).stats)

PriorOutputs == UNION {OutputsOf(req) : req \in ModeRequests}

ModeDisks ==
    { {}, PriorOutputs,
      {p \in PriorOutputs : p.file.width = 200 /\ p.file.format # "svg"} }

InitModes ==
    /\ calls = <<>>
    /\ memCache = <<>>
    /\ promises = [j \in JobIds |-> [state |-> "none", value |-> NoPlan]]
    /\ pq = [queue |-> <<>>, pendingCount |-> 0, concurrency |-> DefaultConcurrency]
    /\ jobs = [j \in JobIds |-> NoJob]
    /\ assetCache = {}
    /\ sync = NoSync
    /\ byDimensions = NoSync
    /\ disk \in ModeDisks
    /\ PureIdle

NextModes ==
    \/ \E req \in ModeRequests : calls = <<>> /\ queueImage(req)
    \/ \E req \in ModeRequests : statsSync(req)
    \/ \E req \in DimensionRequests :
          statsByDimensionsSync(req, SharpMetadata(req.src).width,
                                SharpMetadata(req.src).height)
    \/ \E j \in JobIds : JobStep(j)

SpecModes == InitModes /\ [][NextModes]_vars

(***************************************************************************)
(* Calls that differ in the concurrency and filenameFormat options, with   *)
(* the concurrency setter (SpecOptions).                                   *)
(***************************************************************************)
OptionRequests ==
    { Request(CatJpg, [Options(<<Num(300)>>, TRUE, FALSE) EXCEPT !.concurrency = 1]),
      Request(CatJpg, [Options(<<Num(300)>>, TRUE, FALSE)
                           EXCEPT !.filenameFormat = FunctionA]),
      Request(CatJpg, [Options(<<Num(300)>>, TRUE, FALSE)
                           EXCEPT !.filenameFormat = FunctionB]),
      Request(LogoSvg, [Options(<<Num(300)>>, TRUE, FALSE)
                            EXCEPT !.formats = FormatsArray(<<"svg">>),
                                   !.concurrency = 1]) }

NextOptions ==
    \/ \E req \in OptionRequests : queueImage(req)
    \/ \E n \in 1..MaxLimit : SetConcurrency(n)
    \/ \E j \in JobIds : JobStep(j)

SpecOptions == Init /\ [][NextOptions]_vars

(***************************************************************************)
(* getHash called for two requests (SpecHash).  Between the calls the      *)
(* remote fetch cache may take in the asset of a URL, as a fetch of        *)
(* getInput does, and may let it expire.                                   *)
(***************************************************************************)
CatCopy == Path("./copy/cat.jpg", "cat")
DogMirror == Url("https://mirror.example.com/dog.png", "dog")
LogoCrLf == Path("./logo-crlf.svg", SvgCrLf)

HashSources == {CatJpg, CatCopy, BufferOf("cat"), DogPng, DogMirror, LogoSvg, LogoCrLf}

\* Options that differ from the first in widths, formats, outputDir and
\* urlPath, one at a time and all at once, and in one codec parameter.
HashOptions ==
    LET base == Options(<<Num(300)>>, TRUE, FALSE)
    IN { base,
         [base EXCEPT !.widths = <<Num(300), Num(600)>>],
         [base EXCEPT !.formats = FormatsArray(<<"webp">>)],
         [base EXCEPT !.outputDir = "./dist/img/"],
         [base EXCEPT !.urlPath = "/media/"],
         [base EXCEPT !.widths = <<Num(600)>>, !.formats = FormatsArray(<<"webp", "jpeg">>),
                      !.outputDir = "./dist/img/", !.urlPath = "/media/"],
         [base EXCEPT !.sharp.sharpJpegOptions = "{quality:50}"] }

HashRequests == {Request(src, options) : src \in HashSources, options \in HashOptions}

InitHash ==
    /\ MachineIdle
    /\ hIn \in HashRequests \X HashRequests
    /\ hOut = <<NoHash, NoHash>>
    /\ hDone = <<FALSE, FALSE>>
    /\ WidthsIdle /\ FormatsIdle /\ TransformIdle

\* img.getHash() of an Image made for request i; validAssetCache records
\* what assetCache.isCacheValid answered for its source.
CallGetHash(i) ==
    /\ ~hDone[i]
    /\ hOut' = [hOut EXCEPT ![i] = [hash |-> getHash(hIn[i].src, hIn[i].options),
                                    validAssetCache |-> IsCacheValid(hIn[i].src)]]
    /\ hDone' = [hDone EXCEPT ![i] = TRUE]
    /\ UNCHANGED <<machineVars, hIn, widthVars, formatVars, transformVars>>

\* The remote fetch cache takes in the asset of a URL.
RemoteAssetCached(url) ==
    /\ url \notin assetCache
    /\ assetCache' = assetCache \cup {url}
    /\ UNCHANGED <<queueVars, sync, byDimensions, pureVars>>

\* The cached asset of a URL outlives its duration.
RemoteAssetExpired(url) ==
    /\ url \in assetCache
    /\ assetCache' = assetCache \ {url}
    /\ UNCHANGED <<queueVars, sync, byDimensions, pureVars>>

RemoteUrls == {src.name : src \in {s \in HashSources : isRemoteUrl(s)}}

NextHash ==
    \/ \E i \in 1..2 : CallGetHash(i)
    \/ \E url \in RemoteUrls : RemoteAssetCached(url)
    \/ \E url \in RemoteUrls : RemoteAssetExpired(url)

SpecHash == InitHash /\ [][NextHash]_vars

(***************************************************************************)
(* _transformRawFiles applied to the files of one resize (SpecTransform):  *)
(* an svg entry or none, and for each of two raster formats a file or none *)
(* at each width, in the order resize pushes them.                         *)
(***************************************************************************)
File(format, width, size) == [format |-> format, width |-> width, size |-> size]

\* The sizes of a raster file, and 0 for a width that has no file.
RasterSizes == {1, 3}

\* The sizes of the svg entry; 0 is a size that is not known.
SvgSizes == {0, 1, 2}

RasterGroups(format) ==
    {SelectSeq([w \in 1..MaxLen |-> File(format, w, size[w])],
               LAMBDA file : file.size # 0) :
        size \in [1..MaxLen -> RasterSizes \cup {0}]}

SvgGroups == {<<>>} \cup {<<File("svg", 1, size)>> : size \in SvgSizes}

TransformFormats == {<<"svg", "jpeg", "webp">>, <<"jpeg", "svg", "webp">>}

TransformCalls ==
    {[files |-> groups[formats[1]] \o groups[formats[2]] \o groups[formats[3]],
      formats |-> formats, svgShortCircuit |-> mode] :
        groups \in [svg : SvgGroups, jpeg : RasterGroups("jpeg"),
                    webp : RasterGroups("webp")],
        formats \in TransformFormats,
        mode \in {"false", "true", "size"}}

InitTransform ==
    /\ MachineIdle
    /\ tIn \in TransformCalls
    /\ tOut = NoPlan
    /\ tDone = FALSE
    /\ WidthsIdle /\ FormatsIdle /\ HashIdle

\* this._transformRawFiles(files, formats)
CallTransformRawFiles ==
    /\ ~tDone
    /\ tOut' = transformRawFiles(tIn.files, tIn.formats,
                                 [svgShortCircuit |-> tIn.svgShortCircuit])
    /\ tDone' = TRUE
    /\ UNCHANGED <<machineVars, tIn, widthVars, formatVars, hashVars>>

SpecTransform == InitTransform /\ [][CallTransformRawFiles]_vars

(***************************************************************************)
(* Properties of _transformRawFiles (SpecTransform).                       *)
(***************************************************************************)
\* The filter runs: mode "size", with an svg entry whose size is known.
SizeFilterRuns ==
    /\ tDone /\ tIn.svgShortCircuit = "size"
    /\ \E i \in 1..Len(tIn.files) : tIn.files[i].format = "svg" /\ tIn.files[i].size # 0

SvgSizeIn == tIn.files[CHOOSE i \in 1..Len(tIn.files) : tIn.files[i].format = "svg"].size

\* The raster files of one format handed to the call.
Candidates(type) == {tIn.files[i] : i \in {k \in 1..Len(tIn.files) : tIn.files[k].format = type}}

RasterTypes == {"jpeg", "webp"}

\* C16 as stated: after the filter every raster format group that had a
\* candidate holds at least one entry.
C16_EveryGroupServiceable ==
    SizeFilterRuns =>
        \A type \in RasterTypes : Candidates(type) # {} => tOut[type] # <<>>

\* C16 amended: after the filter a raster format group holds an entry
\* exactly when one of its candidates is not larger than the svg entry; the
\* svg entry stands in at most once per group, and only behind a kept
\* raster entry.
C16_GroupKeptIffSmallCandidate ==
    SizeFilterRuns =>
        \A type \in RasterTypes :
            /\ tOut[type] # <<>> <=> \E file \in Candidates(type) : file.size <= SvgSizeIn
            /\ Cardinality({i \in 1..Len(tOut[type]) : tOut[type][i].format = "svg"}) <= 1
            /\ \A i \in 1..Len(tOut[type]) :
                  tOut[type][i].format = "svg" =>
                      \E k \in 1..(i - 1) : tOut[type][k].format = type

\* C16 witness: the jpeg candidates were all larger than the svg entry and
\* the jpeg group is empty; the webp group kept its small file and has the
\* svg entry for its first larger one.
C16_Witness ==
    /\ SizeFilterRuns
    /\ Candidates("jpeg") # {}
    /\ \A file \in Candidates("jpeg") : file.size > SvgSizeIn
    /\ tOut["jpeg"] = <<>>
    /\ Len(tOut["webp"]) = 2
    /\ tOut["webp"][1].format = "webp"
    /\ tOut["webp"][2].format = "svg"
    /\ Cardinality(Candidates("webp")) = MaxLen

(***************************************************************************)
(* Properties of getHash (SpecHash).                                       *)
(***************************************************************************)
BothHashed == hDone[1] /\ hDone[2]

SameCodecOptions ==
    /\ hIn[1].options.sharp = hIn[2].options.sharp
    /\ hIn[1].options.hashLength = hIn[2].options.hashLength

\* The two sources are local files of identical bytes, Buffers of identical
\* bytes, or one URL for which the remote fetch cache answered the same at
\* both calls.
SameHashedSource ==
    \/ /\ hIn[1].src.kind = "path" /\ hIn[2].src.kind = "path"
       /\ hIn[1].src.bytes = hIn[2].src.bytes
    \/ /\ hIn[1].src.kind = "buffer" /\ hIn[2].src.kind = "buffer"
       /\ hIn[1].src.bytes = hIn[2].src.bytes
    \/ /\ isRemoteUrl(hIn[1].src) /\ hIn[1].src.name = hIn[2].src.name
       /\ hOut[1].validAssetCache = hOut[2].validAssetCache

\* C12 as stated: two requests with identical source bytes and identical
\* codec-parameter options get identical hashes.
C12_SameBytesSameHash ==
    (BothHashed /\ SameCodecOptions /\ hIn[1].src.bytes = hIn[2].src.bytes)
        => hOut[1].hash = hOut[2].hash

\* C12 amended: two requests with identical codec-parameter options get
\* identical hashes, whatever their widths, formats, outputDir and urlPath
\* are, when their sources are local files of identical bytes, Buffers of
\* identical bytes, or the same URL hashed while the remote fetch cache gave
\* the same answer about its asset.
C12_SameHashedSourceSameHash ==
    (BothHashed /\ SameCodecOptions /\ SameHashedSource)
        => hOut[1].hash = hOut[2].hash

\* C12 witness: two files of identical bytes at different paths, requested
\* with different widths, formats, outputDir and urlPath, got one hash.
C12_Witness ==
    /\ BothHashed /\ SameCodecOptions
    /\ hIn[1].src = CatJpg /\ hIn[2].src = CatCopy
    /\ hIn[1].options.widths # hIn[2].options.widths
    /\ hIn[1].options.formats # hIn[2].options.formats
    /\ hIn[1].options.outputDir # hIn[2].options.outputDir
    /\ hIn[1].options.urlPath # hIn[2].options.urlPath
    /\ hOut[1].hash = hOut[2].hash

(***************************************************************************)
(* Properties of getValidWidths (SpecWidths).                              *)
(***************************************************************************)
\* The numeric value of each requested width: falsy and 'auto' entries stand
\* for the original width.
RequestedWidths ==
    {parseInt(AutoWidth(wIn.originalWidth, wIn.widths[i])) : i \in 1..Len(wIn.widths)}

\* A valid list: every requested width is a positive integer.
ValidWidthsList == \A w \in RequestedWidths : w > 0

SetMax(S) == CHOOSE m \in S : \A x \in S : x <= m

\* C6: for every valid widths list, every original width, both values of
\* allowUpscale and every threshold, the widths returned are strictly
\* ascending, so no width occurs twice.
C6_StrictlyAscending ==
    (wDone /\ ValidWidthsList) =>
        \A i \in 1..(Len(wOut) - 1) : wOut[i] < wOut[i + 1]

\* C6 witness: a call returned two widths or more from a list that requested
\* one width twice.
C6_Witness ==
    /\ wDone
    /\ ValidWidthsList
    /\ Len(wOut) >= 2
    /\ Cardinality(RequestedWidths) < Len(wIn.widths)

\* C7: getValidWidths(500, [400, 800], false, 1.25) returns [400, 500].
C7_ThresholdExample ==
    (wDone /\ wIn = ThresholdExample) => wOut = <<400, 500>>

C9_NeverEmpty ==
    (wDone /\ ~wIn.allowUpscale) =>
        /\ wOut # <<>>
        /\ (\A w \in RequestedWidths : w > wIn.originalWidth)
              => wOut = <<wIn.originalWidth>>

\* C9 amended: the same for every list that is not empty and holds only
\* valid widths.
C9_NonEmptyListNeverEmpty ==
    (wDone /\ ~wIn.allowUpscale /\ wIn.widths # <<>> /\ ValidWidthsList) =>
        /\ wOut # <<>>
        /\ (\A w \in RequestedWidths : w > wIn.originalWidth)
              => wOut = <<wIn.originalWidth>>

\* C9 witness: a call whose requested widths, two at least, were all above
\* the original has returned.
C9_Witness ==
    /\ wDone /\ ~wIn.allowUpscale /\ ValidWidthsList
    /\ Cardinality(RequestedWidths) >= 2
    /\ \A w \in RequestedWidths : w > wIn.originalWidth
    /\ wOut = <<wIn.originalWidth>>

(***************************************************************************)
(* Properties of getFormatsArray (SpecFormats).                            *)
(***************************************************************************)
AliasExample == FormatCall(FormatsArray(<<"jpg", "webp">>), "jpeg", "false")

\* C10 as stated: getFormatsArray(["jpg", "webp"], "jpeg", false) returns
\* ["webp", "jpeg"].
C10_AliasExampleReordered ==
    (fDone /\ fIn = AliasExample) => fOut = <<"webp", "jpeg">>

\* C10 amended: getFormatsArray(["jpg", "webp"], "jpeg", false) returns
\* ["jpeg", "webp"]: the alias is resolved and the requested order is kept.
C10_AliasExample ==
    (fDone /\ fIn = AliasExample) => fOut = <<"jpeg", "webp">>

\* C10 witness: the example call has returned.
C10_Witness == fDone /\ fIn = AliasExample

\* The canonical name of a format.
CanonicalName(format) ==
    IF format = "jpg" THEN "jpeg" ELSE IF format = "svg+xml" THEN "svg" ELSE format

\* What entry i of the requested list stands for: the native format for a
\* falsy or "auto" entry, under its canonical name.
RequestedFormat(i) ==
    LET entry == fIn.formats.items[i]
    IN CanonicalName(IF FalsyFormat(entry) \/ entry = "auto" THEN fIn.autoFormat
                     ELSE entry)

RequestedFormats == {RequestedFormat(i) : i \in 1..Len(fIn.formats.items)}

\* The position at which a format is first requested.
FirstRequested(format) ==
    CHOOSE i \in 1..Len(fIn.formats.items) :
        /\ RequestedFormat(i) = format
        /\ \A k \in 1..(i - 1) : RequestedFormat(k) # format

\* C11: given a native format, getFormatsArray returns exactly the requested
\* formats under their canonical names, auto and falsy entries standing for
\* the native format, each once; in mode "size" they are in the order of
\* their first request, and in the other modes svg is first and the others
\* are in the order of their first request.
C11_ResolvedFormats ==
    (fDone /\ fIn.autoFormat # Undefined) =>
        /\ SeqRange(fOut) = RequestedFormats
        /\ \A i, j \in 1..Len(fOut) : i < j =>
              /\ fOut[i] # fOut[j]
              /\ IF fIn.svgShortCircuit # "size" /\ "svg" \in {fOut[i], fOut[j]}
                 THEN fOut[i] = "svg"
                 ELSE FirstRequested(fOut[i]) < FirstRequested(fOut[j])

\* C11 witness: a call in a mode other than "size" moved svg, requested by
\* "auto" after a raster format that was requested twice, to the front.
C11_Witness ==
    /\ fDone /\ fIn.autoFormat = "svg" /\ fIn.svgShortCircuit # "size"
    /\ Len(fIn.formats.items) = 3
    /\ fIn.formats.items[1] = "jpg"
    /\ fIn.formats.items[2] = "auto"
    /\ fIn.formats.items[3] = "jpeg"
    /\ fOut = <<"svg", "jpeg">>

(***************************************************************************)
(* Properties of queueImage and the processing queue (Spec, FairSpec).     *)
(***************************************************************************)
CallIds == 1..Len(calls)

\* The jobs created for a key, which is the key of the calls that were
\* handed the job's promise, and those of them that ran the codec: the codec
\* engine is entered at the probe of resize.
JobsOfKey(key) ==
    {j \in JobIds : \E c \in CallIds : calls[c].promise = j /\ calls[c].key = key}

CodecRunsOfKey(key) == {j \in JobsOfKey(key) : jobs[j].probes > 0}

\* The jobs running in the queue: started and not yet settled.
Running == {j \in JobIds : jobs[j].pc \in {"input", "probe", "mkdir", "hook", "all", "returned"}}

\* C1: with useCache, a call made while an equivalent call is in flight is
\* handed the promise of that call, so both observe one settling result; one
\* job exists for the key, its codec run happens at most once, and exactly
\* once when the full pipeline has resolved.
C1_InFlightDedup ==
    \A c1, c2 \in CallIds :
        (c1 < c2 /\ calls[c2].inFlight /\ calls[c1].key = calls[c2].key
            /\ calls[c1].req.options.useCache) =>
            /\ calls[c2].promise = calls[c1].promise
            /\ Cardinality(JobsOfKey(calls[c2].key)) = 1
            /\ \A j \in JobsOfKey(calls[c2].key) : jobs[j].probes <= 1
            /\ (promises[calls[c2].promise].state = "resolved"
                    /\ ~calls[c2].req.options.statsOnly)
                  => Cardinality(CodecRunsOfKey(calls[c2].key)) = 1

\* C1 witness: a call made while its equivalent was in flight, and the
\* promise the two share has resolved after the codec ran.
C1_Witness ==
    \E c \in CallIds :
        /\ calls[c].inFlight
        /\ promises[calls[c].promise].state = "resolved"
        /\ Cardinality(CodecRunsOfKey(calls[c].key)) = 1

\* C2: a call made after an equivalent call has rejected is given a new job
\* (a promise no earlier call was handed), not the stored rejected promise.
C2_FailureNotCached ==
    \A c \in CallIds :
        calls[c].afterFailure =>
            \A c1 \in 1..(c - 1) : calls[c1].promise # calls[c].promise

\* C3: no output path has two jobs encoding and writing it at the same time.
C3_OneWriterPerPath ==
    \A j1, j2 \in JobIds : \A i1 \in 1..Len(jobs[j1].stats), i2 \in 1..Len(jobs[j2].stats) :
        (j1 # j2 /\ jobs[j1].stats[i1].status = "writing"
                 /\ jobs[j2].stats[i2].status = "writing")
            => jobs[j1].stats[i1].outputPath # jobs[j2].stats[i2].outputPath

\* C4 as stated: in every state the number of running jobs is at most the
\* concurrency limit.
C4_RunningWithinLimit == Cardinality(Running) <= pq.concurrency

\* C4 amended: a step that starts a job leaves at most `concurrency` jobs
\* running, the limit being the one in force after the step, and jobs wait
\* in the queue only while the running jobs are at least the limit; a limit
\* lowered under running jobs is exceeded until they settle.
C4_StartsWithinLimit ==
    /\ [](pq.queue # <<>> => Cardinality(Running) >= pq.concurrency)
    /\ [][(\E j \in JobIds : jobs[j].pc \in {"none", "queued"}
                             /\ jobs'[j].pc \notin {"none", "queued"})
            => Cardinality(Running') <= pq'.concurrency]_vars

\* C4 witness: a job waits in the queue while the running jobs fill the limit.
C4_Witness == pq.queue # <<>> /\ Cardinality(Running) = pq.concurrency

\* C5: every job admitted to the queue eventually settles.
C5_AdmittedJobsSettle ==
    \A j \in JobIds : (jobs[j].pc # "none") ~> (jobs[j].pc = "settled")

\* C5 witness: every call of the run has been made, each got its own job,
\* and every job has settled, one resolved and one rejected.
C5_Witness ==
    /\ Len(calls) = MaxCalls
    /\ \A j \in JobIds : jobs[j].pc = "settled"
    /\ \E j \in JobIds : promises[j].state = "resolved"
    /\ \E j \in JobIds : promises[j].state = "rejected"

(***************************************************************************)
(* Properties of the svgShortCircuit, statsOnly and dryRun modes and of    *)
(* statsSync (SpecModes).                                                  *)
(***************************************************************************)
\* The native input format is svg.
NativeSvg(req) == SharpMetadata(req.src).format = "svg"

\* svg is among the output formats the request resolves to.
ResolvesToSvg(req) ==
    "svg" \in SeqRange(getFormatsArray(req.options.formats, SharpMetadata(req.src).format,
                                       req.options.svgShortCircuit))

\* The stats of a grouped result.
EntriesOf(plan) == UNION {{plan[k][i] : i \in 1..Len(plan[k])} : k \in DOMAIN plan}

Started(j) == jobs[j].pc \notin {"none", "queued"}

Resolved(j) == promises[j].state = "resolved"

\* The stats of job j that are being or have been encoded or written.
Materialized(j) ==
    {jobs[j].stats[i] : i \in {k \in 1..Len(jobs[j].stats) :
        jobs[j].stats[k].status \in {"writing", "buffering", "written", "buffered"}}}

C14_OnlySvgEntry ==
    \A j \in JobIds :
        (Resolved(j) /\ NativeSvg(jobs[j].req)
                     /\ jobs[j].req.options.svgShortCircuit = "true"
                     /\ "svg" \in SeqRange(jobs[j].req.options.formats.items))
            => /\ "svg" \in DOMAIN promises[j].value
               /\ Len(promises[j].value["svg"]) = 1
               /\ promises[j].value["svg"][1].format = "svg"
               /\ \A k \in DOMAIN promises[j].value \ {"svg"} : promises[j].value[k] = <<>>

\* C14 witness: the call for formats jpeg, svg has resolved with the svg
\* entry under svg and nothing under jpeg.
C14_Witness ==
    /\ Resolved(1)
    /\ jobs[1].req.src = LogoSvg
    /\ jobs[1].req.options.svgShortCircuit = "true"
    /\ jobs[1].req.options.formats = FormatsArray(<<"jpeg", "svg">>)
    /\ DOMAIN promises[1].value = {"svg", "jpeg"}
    /\ Len(promises[1].value["svg"]) = 1
    /\ promises[1].value["jpeg"] = <<>>

\* C15: with svgShortCircuit "size", a native svg input and svg among the
\* requested formats, no raster stat larger than the svg entry is in any
\* format group of the resolved output.
C15_NoLargerRasterKept ==
    \A j \in JobIds :
        (Resolved(j) /\ NativeSvg(jobs[j].req)
                     /\ jobs[j].req.options.svgShortCircuit = "size"
                     /\ "svg" \in SeqRange(jobs[j].req.options.formats.items))
            => /\ Len(promises[j].value["svg"]) = 1
               /\ \A stat \in EntriesOf(promises[j].value) :
                     stat.format # "svg" => stat.size <= promises[j].value["svg"][1].size

\* C15 witness: the jpeg files of width 200 and 400 were written, the second
\* larger than the svg file, and the resolved jpeg group holds the first and
\* the svg entry.
C15_Witness ==
    /\ Resolved(1)
    /\ jobs[1].req.src = LogoSvg
    /\ jobs[1].req.options.svgShortCircuit = "size"
    /\ \E i \in 1..Len(jobs[1].stats) :
          /\ jobs[1].stats[i].format = "jpeg"
          /\ jobs[1].stats[i].status = "written"
          /\ jobs[1].stats[i].size > promises[1].value["svg"][1].size
    /\ Len(promises[1].value["jpeg"]) = 2
    /\ promises[1].value["jpeg"][1].format = "jpeg"
    /\ promises[1].value["jpeg"][1].width = 200
    /\ promises[1].value["jpeg"][2] = promises[1].value["svg"][1]

\* C17 as stated: for a local source, the url and filename of each stat
\* statsSync returns are those of the stat of the same format and position
\* in the result of queueImage for the same source and options.
C17_SyncMatchesDerive ==
    (sync.ok /\ Len(calls) = 1 /\ calls[1].req = sync.req /\ Resolved(1))
        => \A k \in DOMAIN sync.plan : \A i \in 1..Len(sync.plan[k]) :
              /\ k \in DOMAIN promises[1].value
              /\ i <= Len(promises[1].value[k])
              /\ promises[1].value[k][i].url = sync.plan[k][i].url
              /\ promises[1].value[k][i].filename = sync.plan[k][i].filename

\* C18 as stated: a job with statsOnly makes no remote fetch, no codec
\* probe, no directory and no encode or write, whatever its source is.
C18_StatsOnlyTouchesNothing ==
    \A j \in JobIds :
        (Started(j) /\ jobs[j].req.options.statsOnly)
            => /\ jobs[j].fetches = 0 /\ jobs[j].probes = 0 /\ jobs[j].mkdirs = 0
               /\ Materialized(j) = {}
               /\ jobs[j].pc \in {"returned", "settled"}

\* C19: a job with statsOnly for a remote URL whose remoteImageMetadata
\* lacks width or height throws before any fetch or codec probe, and the
\* promise queueImage returned is rejected.
C19_MissingRemoteMetadataRejects ==
    \A j \in JobIds :
        (Started(j) /\ jobs[j].req.options.statsOnly /\ isRemoteUrl(jobs[j].req.src)
                    /\ (\/ jobs[j].req.options.remoteImageMetadata.width = 0
                        \/ jobs[j].req.options.remoteImageMetadata.height = 0))
            => /\ jobs[j].fetches = 0 /\ jobs[j].probes = 0
               /\ jobs[j].stats = <<>>
               /\ jobs[j].outcome = "rejected"
               /\ \E c \in 1..Len(calls) : calls[c].promise = j
               /\ jobs[j].pc = "settled" => promises[j].state = "rejected"

\* C19 witness: the promise of such a call has been rejected, nothing
\* fetched, nothing probed.
C19_Witness ==
    /\ jobs[1].pc = "settled"
    /\ jobs[1].req.options.statsOnly /\ jobs[1].req.src = DogPng
    /\ jobs[1].req.options.remoteImageMetadata = NoMetadata
    /\ promises[1].state = "rejected"
    /\ jobs[1].fetches = 0 /\ jobs[1].probes = 0

\* Every call made so far has dryRun set.
OnlyDryRuns == \A c \in 1..Len(calls) : calls[c].req.options.dryRun

\* C20: a job with dryRun makes no directory and starts no write, on the
\* disk-cache hit, the format hook and the default re-encode path, and no
\* step of a run whose calls all have dryRun changes the disk.
C20_DryRunWritesNothing ==
    /\ [](\A j \in JobIds :
            (Started(j) /\ jobs[j].req.options.dryRun)
                => /\ jobs[j].mkdirs = 0
                   /\ \A i \in 1..Len(jobs[j].stats) :
                         jobs[j].stats[i].status \notin {"writing", "written"})
    /\ [][OnlyDryRuns => disk' = disk]_vars

\* C20 witness: a dryRun call for an svg source has resolved with its svg
\* stat buffered from the format hook, its jpeg stat of width 200 taken from
\* the disk cache and its jpeg stat of width 400 buffered by the encoder.
C20_Witness ==
    /\ Resolved(1) /\ jobs[1].req.options.dryRun
    /\ jobs[1].mkdirs = 0
    /\ Len(jobs[1].stats) = 3
    /\ jobs[1].stats[1].format = "svg" /\ jobs[1].stats[1].status = "buffered"
    /\ jobs[1].stats[2].format = "jpeg" /\ jobs[1].stats[2].status = "cached"
    /\ jobs[1].stats[3].format = "jpeg" /\ jobs[1].stats[3].status = "buffered"
    /\ jobs[1].stats[2].outputPath \in disk
    /\ jobs[1].stats[1].outputPath \notin disk
    /\ jobs[1].stats[3].outputPath \notin disk

\* C21 as stated: every stat of the result a dryRun call resolves with
\* carries a buffer with the encoded bytes of that artifact, of its own
\* format and width; for a stat taken from the disk cache these are the
\* bytes of the output file at outputPath.
C21_DryRunBufferIsArtifact ==
    \A j \in JobIds :
        (Resolved(j) /\ jobs[j].req.options.dryRun)
            => \A e \in EntriesOf(promises[j].value) :
                  e.buffer = ArtifactBytes(jobs[j].req.src, e)

\* The job of call j has gone through resize and returned its result.
ResizeResolved(j) ==
    /\ jobs[j].outcome = "resolved"
    /\ ~TakesStatsOnlyBranch(jobs[j].req.src, jobs[j].req.options)

\* C22 as stated: a job resolves only if every stat of its plan was taken
\* from the disk cache, written or buffered; when the step of a stat does
\* not produce its artifact the job does not resolve.
C22_ResolvedMeansEveryStatMaterialized ==
    \A j \in JobIds :
        ResizeResolved(j)
            => \A i \in 1..Len(jobs[j].stats) :
                  jobs[j].stats[i].status \in {"cached", "written", "buffered"}

\* The widths of every group of a grouped result ascend.
GroupsAscend(plan) ==
    \A k \in DOMAIN plan : \A i \in 1..Len(plan[k]) - 1 :
        plan[k][i].width <= plan[k][i + 1].width

\* C23 as stated: in every plan statsSync, statsByDimensionsSync or a
\* resolved queueImage call returns, each format group is sorted ascending
\* by width, in every svgShortCircuit mode.
C23_GroupsSortedByWidth ==
    /\ sync.ok => GroupsAscend(sync.plan)
    /\ byDimensions.ok => GroupsAscend(byDimensions.plan)
    /\ \A j \in JobIds : Resolved(j) => GroupsAscend(promises[j].value)

\* The status of stat i of job j before a step: "planned" until resize has
\* the plan.
StatusBefore(j, i) ==
    IF i \in 1..Len(jobs[j].stats) THEN jobs[j].stats[i].status ELSE "planned"

\* The loop of resize comes to stat i of job j in this step.
LoopReaches(j, i) ==
    /\ StatusBefore(j, i) = "planned"
    /\ ~(jobs[j].pc \in {"mkdir", "hook"} /\ jobs[j].idx = i)
    /\ \/ jobs'[j].stats[i].status # "planned"
       \/ jobs'[j].pc \in {"mkdir", "hook"} /\ jobs'[j].idx = i

\* useCache is set and the output file of stat i of job j is on disk.
DiskCacheHit(j, i) ==
    /\ jobs'[j].req.options.useCache
    /\ jobs'[j].stats[i].outputPath \in disk

RequestsSvg(req) == "svg" \in SeqRange(req.options.formats.items)

\* The request without the svg entries of its formats.
WithoutSvg(req) ==
    [req EXCEPT !.options.formats.items = SelectSeq(@, LAMBDA f : f # "svg")]

\* Stats as getFullStats planned them, before resize filled them in.
PlannedStats(stats) ==
    [i \in 1..Len(stats) |-> [stats[i] EXCEPT !.status = "planned", !.size = 0,
                                               !.buffer = NoBuffer]]

\* The plan of the request that does not ask for svg.
PlanWithoutSvg(req, metadata) == getFullStats(req.src, WithoutSvg(req).options, metadata)

\* C25: when svg is among the requested formats and the native format is
\* not svg, statsSync returns and the job does not fail at the plan; the
\* plan holds no svg stat and, for the other formats, the stats of the same
\* request without svg.
C25_SvgOutputSkippedForRaster ==
    /\ (sync.called /\ RequestsSvg(sync.req) /\ ~NativeSvg(sync.req)
                    /\ ~isRemoteUrl(sync.req.src))
          => /\ sync.ok
             /\ \A k \in DOMAIN sync.plan :
                   sync.plan[k] = IF k = "svg" THEN <<>>
                                  ELSE PlanWithoutSvg(sync.req,
                                                      ImageSize(sync.req.src)).plan[k]
    /\ \A j \in JobIds :
          (jobs[j].probes = 1 /\ jobs[j].stats # <<>> /\ RequestsSvg(jobs[j].req)
                              /\ ~NativeSvg(jobs[j].req))
             => /\ \A i \in 1..Len(jobs[j].stats) : jobs[j].stats[i].format # "svg"
                /\ PlannedStats(jobs[j].stats)
                      = PlanWithoutSvg(jobs[j].req, SharpMetadata(jobs[j].req.src)).stats

\* C25 witness: a call asking for svg and jpeg of a JPEG source has resolved
\* with its one jpeg stat written, and statsSync has returned for it.
C25_Witness ==
    /\ Resolved(1) /\ RequestsSvg(jobs[1].req) /\ ~NativeSvg(jobs[1].req)
    /\ Len(jobs[1].stats) = 1
    /\ jobs[1].stats[1].format = "jpeg" /\ jobs[1].stats[1].status = "written"
    /\ sync.ok /\ sync.req = jobs[1].req

\* A format that stands for the native one: auto, null, undefined or empty.
AutoOrEmpty(format) == format \in {"auto", NullFormat, Undefined, ""}

\* The request asks for the native format in one of its formats.
AsksNative(req) ==
    \E i \in 1..Len(req.options.formats.items) : AutoOrEmpty(req.options.formats.items[i])

\* The statsOnly job of a remote source whose remoteImageMetadata has the
\* dimensions and no format.
GuessesWithoutFormat(req) ==
    /\ TakesStatsOnlyBranch(req.src, req.options) /\ isRemoteUrl(req.src)
    /\ ~RemoteMetadataMissing(req.options)
    /\ AutoOrEmpty(req.options.remoteImageMetadata.format)

\* C26: getFullStats throws, and no plan is returned, when a requested
\* format is auto or falsy and neither the metadata nor overrideInputFormat
\* names the native format, in statsByDimensionsSync and in the statsOnly
\* job of a remote source; no stat of any plan has the format auto or an
\* empty one.
C26_AutoWithoutNativeThrows ==
    /\ (byDimensions.called /\ AsksNative(byDimensions.req)
          /\ AutoOrEmpty(byDimensions.req.options.overrideInputFormat))
          => ~byDimensions.ok /\ byDimensions.plan = NoPlan
    /\ \A j \in JobIds :
          (Started(j) /\ GuessesWithoutFormat(jobs[j].req) /\ AsksNative(jobs[j].req))
             => /\ jobs[j].outcome = "rejected"
                /\ promises[j].value = NoPlan
    /\ \A j \in JobIds : \A i \in 1..Len(jobs[j].stats) :
          ~AutoOrEmpty(jobs[j].stats[i].format)
    /\ \A stat \in EntriesOf(sync.plan) \cup EntriesOf(byDimensions.plan) :
          ~AutoOrEmpty(stat.format)

\* C26 witness: statsByDimensionsSync has thrown for the formats jpeg and
\* null without overrideInputFormat, and the statsOnly job of a remote
\* source without a format in remoteImageMetadata was rejected for auto.
C26_Witness ==
    /\ byDimensions.called /\ ~byDimensions.ok
    /\ byDimensions.req.options.formats = FormatsArray(<<"jpeg", NullFormat>>)
    /\ GuessesWithoutFormat(jobs[1].req) /\ AsksNative(jobs[1].req)
    /\ promises[1].state = "rejected"

\* The native size of a source as the plan is computed from it: the width
\* and height the codec reports, exchanged when the EXIF orientation is a
\* quarter turn, and the height of one frame for a multi-frame image.
ResolvedSize(src) ==
    LET m == SharpMetadata(src)
        turned == m.orientation \in 5..8
    IN [width |-> IF turned THEN m.height ELSE m.width,
        height |-> IF m.pageHeight # 0 THEN m.pageHeight
                   ELSE IF turned THEN m.width ELSE m.height]

\* The 1280 x 853 source asked for its native width as webp and jpeg.
NativeWidthExample ==
    Request(CatJpg, [Options(<<Null>>, TRUE, FALSE)
                         EXCEPT !.formats = FormatsArray(<<"webp", "jpeg">>)])

\* C27: every stat resize plans for a raster source of native size W x H has
\* the height floor(width * H / W), and the 1280 x 853 source asked for
\* widths [null] and formats webp and jpeg resolves with exactly one stat
\* per format, each 1280 wide and 853 high.
C27_HeightKeepsAspectRatio ==
    \A j \in JobIds :
        /\ (jobs[j].probes = 1 /\ ~NativeSvg(jobs[j].req))
              => \A i \in 1..Len(jobs[j].stats) :
                    jobs[j].stats[i].height =
                        (jobs[j].stats[i].width * ResolvedSize(jobs[j].req.src).height)
                            \div ResolvedSize(jobs[j].req.src).width
        /\ (Resolved(j) /\ jobs[j].req = NativeWidthExample)
              => /\ DOMAIN promises[j].value = {"webp", "jpeg"}
                 /\ \A k \in {"webp", "jpeg"} :
                       /\ Len(promises[j].value[k]) = 1
                       /\ promises[j].value[k][1].format = k
                       /\ promises[j].value[k][1].width = 1280
                       /\ promises[j].value[k][1].height = 853

\* C27 witness: the example call has gone through resize and resolved with
\* its two stats written.
C27_Witness ==
    /\ Resolved(1) /\ jobs[1].req = NativeWidthExample
    /\ jobs[1].probes = 1
    /\ Cardinality(EntriesOf(promises[1].value)) = 2
    /\ \A e \in EntriesOf(promises[1].value) : e.status = "written"

\* C28: an entry of the de-dup cache is never removed or replaced, and
\* every call with useCache whose key an earlier call with useCache stored
\* is handed the promise stored then, whether it is pending, resolved or
\* rejected by then.
C28_CacheEntriesPermanent ==
    /\ [][\A key \in DOMAIN memCache :
             key \in DOMAIN memCache' /\ memCache'[key] = memCache[key]]_vars
    /\ [](\A c1, c2 \in 1..Len(calls) :
             (c1 < c2 /\ calls[c1].key = calls[c2].key
                      /\ calls[c1].req.options.useCache
                      /\ calls[c2].req.options.useCache)
                => /\ calls[c2].promise = calls[c1].promise
                   /\ MemoryCacheGet(memCache, calls[c1].key) = calls[c1].promise)

\* C28 witness: a second call with the key of the first was made after the
\* promise of the first had resolved, and was handed that promise.
C28_Witness ==
    /\ Len(calls) = 2
    /\ calls[1].key = calls[2].key
    /\ calls[1].req.options.useCache
    /\ ~calls[2].inFlight /\ ~calls[2].afterFailure
    /\ calls[2].promise = calls[1].promise
    /\ promises[calls[1].promise].state = "resolved"

\* A step that starts a job.
StartsJob ==
    \E j \in JobIds : jobs[j].pc \in {"none", "queued"}
                      /\ jobs'[j].pc \notin {"none", "queued"}

\* C29: no queueImage call changes the concurrency limit, whatever the
\* concurrency of its options; a step that changes the limit leaves every
\* job that has started and every promise as it was; and a job is started
\* afterwards only within the limit then in force.
C29_LimitChangedOnlyBySetter ==
    [][/\ calls' # calls => pq'.concurrency = pq.concurrency
       /\ pq'.concurrency # pq.concurrency
             => /\ \A j \in JobIds : Started(j) => jobs'[j] = jobs[j]
                /\ promises' = promises /\ calls' = calls
       /\ StartsJob => Cardinality(Running') <= pq'.concurrency]_vars

\* C29 witness: two jobs run although the limit is 1, so the setter lowered
\* it while both were running and neither was interrupted; the first call
\* had the concurrency 1 in its options and the second job was started all
\* the same.
C29_Witness ==
    /\ Len(calls) = 2
    /\ calls[1].req.options.concurrency = 1
    /\ pq.concurrency = 1
    /\ jobs[1].pc = "probe" /\ jobs[2].pc = "probe"

\* The stats resize plans for a request.
PlanFor(req) == getFullStats(req.src, req.options, SharpMetadata(req.src)).stats

\* C30 as stated: two calls that were handed the same promise have options
\* that produce the same stats; calls whose options differ in what they
\* produce, a function-valued option included, have different keys.
C30_SharedEntrySamePlan ==
    \A c1, c2 \in 1..Len(calls) :
        (calls[c1].promise = calls[c2].promise \/ calls[c1].key = calls[c2].key)
            => PlanFor(calls[c1].req) = PlanFor(calls[c2].req)

\* The step is a queueImage call without useCache.
CallsWithoutCache ==
    /\ Len(calls') = Len(calls) + 1
    /\ ~calls'[Len(calls')].req.options.useCache

\* C31: a queueImage call without useCache leaves the de-dup cache as it
\* was and is handed the promise of a job of its own, which no earlier call
\* holds; and no stat of a job without useCache is taken from the disk
\* cache, so each is encoded even when its output file exists.
C31_NoCacheWithoutUseCache ==
    /\ [][CallsWithoutCache
            => /\ memCache' = memCache
               /\ \A c \in 1..Len(calls) :
                     calls[c].promise # calls'[Len(calls')].promise
               /\ jobs[calls'[Len(calls')].promise].pc = "none"
               /\ jobs'[calls'[Len(calls')].promise].pc # "none"]_vars
    /\ [](\A j \in JobIds :
            (Started(j) /\ ~jobs[j].req.options.useCache)
               => \A i \in 1..Len(jobs[j].stats) : jobs[j].stats[i].status # "cached")

\* C31 witness: the second call, without useCache, has the request of the
\* first, whose job has written the output file; the job of the second is
\* writing the same file again, and the cache holds what the first stored.
C31_Witness ==
    /\ Len(calls) = 2
    /\ ~calls[2].req.options.useCache
    /\ calls[2].promise = 2 /\ calls[1].promise = 1
    /\ Resolved(1)
    /\ Len(jobs[2].stats) = 1
    /\ jobs[2].stats[1].status = "writing"
    /\ jobs[2].stats[1].outputPath \in disk
    /\ jobs[2].stats[1].outputPath = jobs[1].stats[1].outputPath

\* Nothing outside the code failed for job j: its plan was made and no
\* hook, encode or write of its stats failed.
NothingFailed(j) ==
    /\ jobs[j].stats # <<>>
    /\ \A i \in 1..Len(jobs[j].stats) : jobs[j].stats[i].status # "failed"

\* C32 as stated: with a urlFormat function every stat is without filename
\* and outputPath, and a call with dryRun off resolves with every artifact
\* kept as a buffer and no file written, whatever the output format, the
\* svg of the format hook included.
C32_UrlFormatKeepsBuffers ==
    \A j \in JobIds :
        (Started(j) /\ IsFunction(jobs[j].req.options.urlFormat))
            => /\ \A i \in 1..Len(jobs[j].stats) :
                     /\ jobs[j].stats[i].filename = NoFilename
                     /\ jobs[j].stats[i].outputPath = NoPath
               /\ (/\ ~jobs[j].req.options.dryRun
                   /\ jobs[j].pc \in {"returned", "settled"}
                   /\ NothingFailed(j))
                      => /\ jobs[j].outcome = "resolved"
                         /\ NoPath \notin disk
                         /\ \A i \in 1..Len(jobs[j].stats) :
                               /\ jobs[j].stats[i].status = "buffered"
                               /\ jobs[j].stats[i].buffer
                                     = ArtifactBytes(jobs[j].req.src, jobs[j].stats[i])

\* The metadata the plan of job j is made from: what sharp reads, or on the
\* statsOnly branch what image-size reads or remoteImageMetadata says.
PlanMetadata(j) ==
    IF ~TakesStatsOnlyBranch(jobs[j].req.src, jobs[j].req.options)
    THEN SharpMetadata(jobs[j].req.src)
    ELSE IF isRemoteUrl(jobs[j].req.src) THEN jobs[j].req.options.remoteImageMetadata
    ELSE ImageSize(jobs[j].req.src)

\* The native format is svg and svgAllowUpscale is set.
MayUpscale(options, metadata) == metadata.format = "svg" /\ options.svgAllowUpscale

\* The stats of a synchronous plan are no wider than what the plan was made
\* from.
PlanNotUpscaled(s) ==
    s.ok => \/ MayUpscale(s.req.options, s.given)
            \/ \A e \in EntriesOf(s.plan) : e.width <= EffectiveMetadata(s.given).width

\* The 1280 wide source asked for 300 and for 2000.
BeyondNativeExample == Request(CatJpg, Options(<<Num(300), Num(2000)>>, TRUE, FALSE))

\* C33: unless the native format is svg and svgAllowUpscale is set, every
\* stat of every plan (of a job, of statsSync, of statsByDimensionsSync) is
\* at most as wide as the source, and sharpInstance.resize is called only
\* for the stats that are narrower than the source.
C33_RasterNeverUpscaled ==
    /\ \A j \in JobIds :
          Started(j)
             => \/ MayUpscale(jobs[j].req.options, PlanMetadata(j))
                \/ /\ \A i \in 1..Len(jobs[j].stats) :
                         jobs[j].stats[i].width <= EffectiveMetadata(PlanMetadata(j)).width
                   /\ \A i \in jobs[j].resized :
                         jobs[j].stats[i].width < EffectiveMetadata(PlanMetadata(j)).width
    /\ PlanNotUpscaled(sync)
    /\ PlanNotUpscaled(byDimensions)

\* The request for 300 and 2000 has resolved: its stats are 300 and 1280
\* wide, the former resized and the latter, at the native width, not.
C33_Witness ==
    /\ jobs[1].req = BeyondNativeExample
    /\ Resolved(1)
    /\ {jobs[1].stats[i].width : i \in 1..Len(jobs[1].stats)} = {300, 1280}
    /\ \A i \in 1..Len(jobs[1].stats) :
          /\ jobs[1].stats[i].status = "written"
          /\ i \in jobs[1].resized <=> jobs[1].stats[i].width = 300

\* The write or the encode of stat i of job j is started in this step.
StartsMaterialization(j, i) ==
    /\ StatusBefore(j, i) = "planned"
    /\ jobs'[j].stats[i].status \in {"writing", "buffering"}

\* Stat i of job j is done in this step without having been pending: only
\* the result of a format hook with dryRun is, a buffer that is at hand.
DoneAtOnce(j, i) ==
    /\ StatusBefore(j, i) = "planned"
    /\ jobs'[j].stats[i].status \in {"written", "buffered"}

\* Three outputs of the svg source; getFormatsArray puts svg, the output of
\* the format hook, first.
ThreeFormatsExample ==
    Request(LogoSvg, SvgOptions(<<Num(200)>>, <<"jpeg", "svg", "webp">>, "false"))

\* C34: the loop of resize does not wait for the write or the encode it
\* starts: the step that starts it for stat i leaves it pending and takes
\* the loop past i, to the next await or to Promise.all, on the default
\* path and for the write of a hook result alike; so a later stat is
\* started while an earlier one is pending.
C34_MaterializationsNotSerialized ==
    [][\A j \in JobIds : \A i \in 1..Len(jobs'[j].stats) :
          /\ StartsMaterialization(j, i)
                => /\ jobs'[j].idx > i
                   /\ jobs'[j].pc \in {"mkdir", "hook", "all"}
          /\ DoneAtOnce(j, i)
                => /\ HasFormatHook(jobs'[j].req.options, jobs'[j].stats[i].format)
                   /\ jobs'[j].req.options.dryRun]_vars

\* C34 witness: the writes of the result of the svg hook, of the jpeg and
\* of the webp of one request are pending together, each started before
\* the one before it has completed.
C34_Witness ==
    /\ jobs[1].req = ThreeFormatsExample
    /\ Len(jobs[1].stats) = 3
    /\ jobs[1].stats[1].format = "svg"
    /\ \A i \in 1..3 : jobs[1].stats[i].status = "writing"
    /\ jobs[1].pc = "all"

====
